---- MODULE Spec2Model ----
(***************************************************************************)
(* A model of implib-rs: the GNU `ar` archive writer (src/src/ar/write.rs),*)
(* the MSVC-flavor generator (src/src/lib.rs) and the GNU-flavor generator *)
(* (src/src/gnu.rs).                                                       *)
(*                                                                         *)
(* Bytes are naturals 0..255; a name or a stream is a sequence of bytes.   *)
(* Text literals are converted with Bytes("...").                          *)
(***************************************************************************)
EXTENDS Integers, Sequences, FiniteSets, TLC

VARIABLES
    pc,      \* position of the driver: which operation runs next
    args,    \* SpecAr: the arguments given to new_with_symbol_table
    ar,      \* SpecAr: the GnuBuilder (its stream included)
    calls,   \* SpecAr: history of the append calls made so far
    def,     \* Spec: the ModuleDef (as parsed, then normalized by the facade)
    machine, \* Spec: the MachineType
    flavor,  \* Spec: "msvc" or "gnu"
    out,     \* Spec: what write_to did (first run)
    out2,    \* Spec: what write_to did (second run, same input)
    parser   \* SpecParse: the Parser (its lexer, token stack and ModuleDef)

vars == <<pc, args, ar, calls, def, machine, flavor, out, out2, parser>>

----------------------------------------------------------------------------
(* Text and number formatting                                              *)

\* The printable ASCII characters 32..95 and 97..126 (the backquote, 96, cannot
\* be written in a string literal and is given as a byte where it is needed).
PrintableLow ==
    " !\"#$%&'()*+,-./0123456789:;<=>?@ABCDEFGHIJKLMNOPQRSTUVWXYZ[\\]^_"

PrintableHigh == "abcdefghijklmnopqrstuvwxyz{|}~"

AsciiCode ==
    [c \in {SubSeq(PrintableLow, i, i) : i \in 1..Len(PrintableLow)}
            \cup {SubSeq(PrintableHigh, i, i) : i \in 1..Len(PrintableHigh)} |->
        IF \E i \in 1..Len(PrintableLow) : SubSeq(PrintableLow, i, i) = c
        THEN 31 + (CHOOSE i \in 1..Len(PrintableLow) : SubSeq(PrintableLow, i, i) = c)
        ELSE 96 + (CHOOSE i \in 1..Len(PrintableHigh) : SubSeq(PrintableHigh, i, i) = c)]

\* The bytes of an ASCII string literal.
Bytes(s) == [i \in 1..Len(s) |-> AsciiCode[SubSeq(s, i, i)]]

NL == <<10>>
NUL == <<0>>

Repeat(b, n) == [i \in 1..n |-> b]

Spaces(n) == Repeat(32, n)
Zeros(n) == Repeat(0, n)

RECURSIVE Radix(_, _)
\* The digits of n in the given base, most significant first ("0" for 0).
Radix(n, base) ==
    IF n < base THEN <<48 + n>>
    ELSE Radix(n \div base, base) \o <<48 + (n % base)>>

Dec(n) == Radix(n, 10)
Oct(n) == Radix(n, 8)

\* Rust's `{:<w}`: left-aligned, padded with spaces to a minimum width w,
\* never truncated.
PadLeftAligned(s, w) == s \o Spaces(w - Len(s))

\* u32::to_be_bytes
U32BE(n) ==
    << (n \div 16777216) % 256, (n \div 65536) % 256, (n \div 256) % 256, n % 256 >>

\* u32::to_le_bytes and u16::to_le_bytes
U32LE(n) ==
    << n % 256, (n \div 256) % 256, (n \div 65536) % 256, (n \div 16777216) % 256 >>

U16LE(n) == << n % 256, (n \div 256) % 256 >>

\* u32::to_be_bytes(0xcafebabe)
SentinelBytes == <<202, 254, 186, 190>>

RECURSIVE SumLen(_)
SumLen(ss) == IF ss = <<>> THEN 0 ELSE Len(Head(ss)) + SumLen(Tail(ss))

RECURSIVE Flatten(_)
Flatten(ss) == IF ss = <<>> THEN <<>> ELSE Head(ss) \o Flatten(Tail(ss))

Range(s) == {s[i] : i \in 1..Len(s)}

\* All orders in which the elements of a finite set can be enumerated.
Orders(S) ==
    {s \in [1..Cardinality(S) -> S] : \A i, j \in 1..Cardinality(S) : i # j => s[i] # s[j]}

----------------------------------------------------------------------------
(* The seekable output stream (a Cursor over a growing byte vector)        *)

EmptyStream == [buf |-> <<>>, pos |-> 0]

\* Write::write_all at the current position: overwrites what is there,
\* extends the buffer past its end, and advances the position.
WriteAll(w, bytes) ==
    LET n == Len(bytes)
        before == SubSeq(w.buf, 1, w.pos)
        after == SubSeq(w.buf, w.pos + n + 1, Len(w.buf))
    IN  [buf |-> before \o bytes \o after, pos |-> w.pos + n]

\* Seek::seek(SeekFrom::Start(p))
SeekStart(w, p) == [w EXCEPT !.pos = p]

----------------------------------------------------------------------------
(* ar::Header and the archive constants                                    *)

GLOBAL_HEADER == Bytes("!<arch>") \o NL
GNU_NAME_TABLE_ID == Bytes("//")
GNU_SYMBOL_LOOKUP_TABLE_ID == Bytes("/")

\* Header::new(identifier, size): the metadata starts zeroed.
HeaderNew(identifier, size) ==
    [identifier |-> identifier, mtime |-> 0, uid |-> 0, gid |-> 0, mode |-> 0,
     size |-> size]

\* Header::validate: every numeric field fits its column of the 60-byte record.
HeaderValidate(h) ==
    /\ Len(Dec(h.mtime)) <= 12
    /\ Len(Dec(h.uid)) <= 6
    /\ Len(Dec(h.gid)) <= 6
    /\ Len(Oct(h.mode)) <= 8
    /\ Len(Dec(h.size)) <= 10

\* write_gnu, deterministic branch: mtime, uid, gid are 0 and the mode is 0o644.
DeterministicFields(h) ==
    PadLeftAligned(Dec(0), 12) \o PadLeftAligned(Dec(0), 6)
        \o PadLeftAligned(Dec(0), 6) \o PadLeftAligned(Oct(420), 8)

\* Header::write_gnu: the 60 bytes of a member header.
HeaderBytes(h, deterministic, names) ==
    (IF Len(h.identifier) > 15
     THEN Bytes("/") \o PadLeftAligned(Dec(names[h.identifier]), 15)
     ELSE h.identifier \o Bytes("/") \o Spaces(15 - Len(h.identifier)))
    \o (IF deterministic
        THEN DeterministicFields(h)
        ELSE PadLeftAligned(Dec(h.mtime), 12) \o PadLeftAligned(Dec(h.uid), 6)
                \o PadLeftAligned(Dec(h.gid), 6) \o PadLeftAligned(Oct(h.mode), 8))
    \o PadLeftAligned(Dec(h.size), 10) \o <<96>> \o NL

----------------------------------------------------------------------------
(* GnuBuilder::new_with_symbol_table                                       *)

\* HashMap::insert: a later insert of the same key replaces the value.
MapInsert(m, k, v) == [x \in DOMAIN m \cup {k} |-> IF x = k THEN v ELSE m[x]]

EmptyMap == [x \in {} |-> 0]

\* One long identifier of the loop: it is entered at the running table size,
\* which then grows by the identifier and its `/\n`.
LongNameInsert(st, identifier) ==
    [st EXCEPT !.long_names = MapInsert(st.long_names, identifier, st.size),
               !.size = st.size + Len(identifier) + 2]

RECURSIVE ScanIdentifiers(_, _)
\* The loop over `identifiers`: the short-name set, the long-name map and the
\* running name_table_size.
ScanIdentifiers(identifiers, st) ==
    IF identifiers = <<>> THEN st
    ELSE LET identifier == Head(identifiers)
             next == IF Len(identifier) > 15
                     THEN LongNameInsert(st, identifier)
                     ELSE [st EXCEPT !.short_names = st.short_names \cup {identifier}]
         IN  ScanIdentifiers(Tail(identifiers), next)

RECURSIVE LexLeq(_, _)
\* Ord for byte slices.
LexLeq(a, b) ==
    IF a = <<>> THEN TRUE
    ELSE IF b = <<>> THEN FALSE
    ELSE IF Head(a) # Head(b) THEN Head(a) < Head(b)
    ELSE LexLeq(Tail(a), Tail(b))

\* Ord for (usize, &[u8]).
EntryLeq(a, b) == a[1] < b[1] \/ (a[1] = b[1] /\ LexLeq(a[2], b[2]))

RECURSIVE InsertSorted(_, _)
InsertSorted(e, sorted) ==
    IF sorted = <<>> THEN <<e>>
    ELSE IF EntryLeq(e, Head(sorted)) THEN <<e>> \o sorted
    ELSE <<Head(sorted)>> \o InsertSorted(e, Tail(sorted))

RECURSIVE SortEntries(_)
SortEntries(entries) ==
    IF entries = <<>> THEN <<>>
    ELSE InsertSorted(Head(entries), SortEntries(Tail(entries)))

\* Mutant of NameTableEntries: the entries are written in the map's iteration
\* order.
NameTableEntriesUnsorted(long_names, iter) ==
    [i \in 1..Len(iter) |-> <<long_names[iter[i]], iter[i]>>]

\* The (start, id) pairs collected from the map in its iteration order `iter`,
\* then sorted.
NameTableEntries(long_names, iter) ==
    SortEntries([i \in 1..Len(iter) |-> <<long_names[iter[i]], iter[i]>>])

RECURSIVE NameTablePayload(_)
NameTablePayload(entries) ==
    IF entries = <<>> THEN <<>>
    ELSE Head(entries)[2] \o Bytes("/") \o NL \o NameTablePayload(Tail(entries))

RECURSIVE SlotPositions(_, _)
\* The stream positions of the sentinels, grouped as the symbol table is:
\* sym_rels of each group, the first slot of the first group at `at`.
SlotPositions(symbol_table, at) ==
    IF symbol_table = <<>> THEN <<>>
    ELSE LET n == Len(Head(symbol_table))
         IN  <<[i \in 1..n |-> at + 4 * (i - 1)]>>
                 \o SlotPositions(Tail(symbol_table), at + 4 * n)

RECURSIVE SymbolNames(_)
\* Every symbol followed by a NUL.
SymbolNames(symbols) ==
    IF symbols = <<>> THEN <<>>
    ELSE Head(symbols) \o NUL \o SymbolNames(Tail(symbols))

\* The symbol table member `/`, written when symbol_table is not empty.
WriteSymbolTable(w, symbol_table) ==
    IF symbol_table = <<>> THEN [w |-> w, relocs |-> <<>>]
    ELSE LET symbols == Flatten(symbol_table)
             symbol_count == Len(symbols)
             raw_size == 4 + 4 * symbol_count + SumLen(symbols) + symbol_count
             needs_padding == raw_size % 2 # 0
             symbol_table_size == IF needs_padding THEN raw_size + 3 ELSE raw_size
             w1 == WriteAll(w,
                     PadLeftAligned(GNU_SYMBOL_LOOKUP_TABLE_ID, 16)
                     \o PadLeftAligned(Dec(0), 12) \o PadLeftAligned(Dec(0), 6)
                     \o PadLeftAligned(Dec(0), 6) \o PadLeftAligned(Oct(0), 8)
                     \o PadLeftAligned(Dec(symbol_table_size), 10) \o <<96>> \o NL)
             w2 == WriteAll(w1, U32BE(symbol_count))
             relocs == SlotPositions(symbol_table, w2.pos)
             w3 == WriteAll(w2, Flatten([i \in 1..symbol_count |-> SentinelBytes]))
             w4 == WriteAll(w3, SymbolNames(symbols))
             w5 == IF needs_padding THEN WriteAll(w4, Bytes(" /") \o NL) ELSE w4
         IN  [w |-> w5, relocs |-> relocs]

\* new_with_symbol_table, from the identifier scan on: the `//` member is
\* written after the symbol table when there are long names.
\* name_table_at and name_table_len are history fields: where the `//`
\* payload starts in the stream and how many bytes of it were written.
WriteNameTable(deterministic, scan, st, iter) ==
    LET name_table_needs_padding == scan.size % 2 # 0
        name_table_size == IF name_table_needs_padding THEN scan.size + 3 ELSE scan.size
        header == PadLeftAligned(GNU_NAME_TABLE_ID, 48)
                      \o PadLeftAligned(Dec(name_table_size), 10) \o <<96>> \o NL
        payload == NameTablePayload(NameTableEntries(scan.long_names, iter))
                      \o (IF name_table_needs_padding THEN Bytes(" /") \o NL ELSE <<>>)
        has_long == DOMAIN scan.long_names # {}
    IN  [writer |-> IF has_long THEN WriteAll(st.w, header \o payload) ELSE st.w,
         deterministic |-> deterministic,
         short_names |-> scan.short_names,
         long_names |-> scan.long_names,
         symbol_table_relocations |-> st.relocs,
         symbol_index |-> 0,
         name_table_at |-> IF has_long THEN st.w.pos + Len(header) ELSE st.w.pos,
         name_table_len |-> IF has_long THEN Len(payload) ELSE 0]

\* GnuBuilder::new_with_symbol_table on an empty stream.  `iter` is the order
\* in which the HashMap long_names happens to be iterated.
NewWithSymbolTable(deterministic, identifiers, symbol_table, iter) ==
    WriteNameTable(deterministic,
        ScanIdentifiers(identifiers,
            [short_names |-> {}, long_names |-> EmptyMap, size |-> 0]),
        WriteSymbolTable(WriteAll(EmptyStream, GLOBAL_HEADER), symbol_table),
        iter)

\* The keys long_names ends with, whose iteration order the caller supplies.
LongKeys(identifiers) == {id \in Range(identifiers) : Len(id) > 15}

----------------------------------------------------------------------------
(* GnuBuilder::append                                                      *)

RECURSIVE PatchSlots(_, _, _)
\* The loop over relocs: seek to each slot and write the offset there.
PatchSlots(w, relocs, bytes) ==
    IF relocs = <<>> THEN w
    ELSE PatchSlots(WriteAll(SeekStart(w, Head(relocs)), bytes), Tail(relocs), bytes)

\* Mutant of BackPatch: symbol_index is not advanced.
BackPatchNoAdvance(b) ==
    IF b.symbol_index + 1 <= Len(b.symbol_table_relocations)
    THEN LET relocs == b.symbol_table_relocations[b.symbol_index + 1]
             entry_offset == b.writer.pos
         IN  [b EXCEPT !.writer = SeekStart(
                 PatchSlots(b.writer, relocs, U32BE(entry_offset)), entry_offset)]
    ELSE b

\* Mutant of BackPatch: the position is not restored after the slots are
\* written.
BackPatchNoRestore(b) ==
    IF b.symbol_index + 1 <= Len(b.symbol_table_relocations)
    THEN LET relocs == b.symbol_table_relocations[b.symbol_index + 1]
             entry_offset == b.writer.pos
         IN  [b EXCEPT !.writer = PatchSlots(b.writer, relocs, U32BE(entry_offset)),
                       !.symbol_index = b.symbol_index + 1]
    ELSE b

\* The back-patch of append: the group at symbol_index, if there is one,
\* receives the current stream position; the position is restored and
\* symbol_index advances.
BackPatch(b) ==
    IF b.symbol_index + 1 <= Len(b.symbol_table_relocations)
    THEN LET relocs == b.symbol_table_relocations[b.symbol_index + 1]
             entry_offset == b.writer.pos
         IN  [b EXCEPT !.writer = SeekStart(
                 PatchSlots(b.writer, relocs, U32BE(entry_offset)), entry_offset),
                       !.symbol_index = b.symbol_index + 1]
    ELSE b

\* Mutant of GnuBuilderAppend: the back-patch comes before the test of the
\* identifier.
GnuBuilderAppendPatchFirst(b, header, data) ==
    LET has_name == IF Len(header.identifier) > 15
                    THEN header.identifier \in DOMAIN b.long_names
                    ELSE header.identifier \in b.short_names
        b1 == BackPatch(b)
    IN  IF ~has_name THEN [b |-> b1, result |-> "ErrNotInList"]
        ELSE IF ~HeaderValidate(header) THEN [b |-> b1, result |-> "ErrHeader"]
        ELSE LET w2 == WriteAll(WriteAll(b1.writer,
                                    HeaderBytes(header, b1.deterministic, b1.long_names)),
                                data)
             IN  IF Len(data) # header.size
                 THEN [b |-> [b1 EXCEPT !.writer = w2], result |-> "ErrWrongSize"]
                 ELSE [b |-> [b1 EXCEPT !.writer =
                                IF Len(data) % 2 # 0 THEN WriteAll(w2, NL) ELSE w2],
                       result |-> "Ok"]

\* Mutant of GnuBuilderAppend: the padding byte follows data of even length.
GnuBuilderAppendPadEven(b, header, data) ==
    LET has_name == IF Len(header.identifier) > 15
                    THEN header.identifier \in DOMAIN b.long_names
                    ELSE header.identifier \in b.short_names
        b1 == BackPatch(b)
    IN  IF ~has_name THEN [b |-> b, result |-> "ErrNotInList"]
        ELSE IF ~HeaderValidate(header) THEN [b |-> b1, result |-> "ErrHeader"]
        ELSE LET w2 == WriteAll(WriteAll(b1.writer,
                                    HeaderBytes(header, b1.deterministic, b1.long_names)),
                                data)
             IN  IF Len(data) # header.size
                 THEN [b |-> [b1 EXCEPT !.writer = w2], result |-> "ErrWrongSize"]
                 ELSE [b |-> [b1 EXCEPT !.writer =
                                IF Len(data) % 2 = 0 THEN WriteAll(w2, NL) ELSE w2],
                       result |-> "Ok"]

\* GnuBuilder::append(header, data): the builder afterwards and the result.
GnuBuilderAppend(b, header, data) ==
    LET has_name == IF Len(header.identifier) > 15
                    THEN header.identifier \in DOMAIN b.long_names
                    ELSE header.identifier \in b.short_names
    IN  IF ~has_name THEN [b |-> b, result |-> "ErrNotInList"]
        ELSE LET b1 == BackPatch(b)
             IN  IF ~HeaderValidate(header) THEN [b |-> b1, result |-> "ErrHeader"]
                 ELSE LET w1 == WriteAll(b1.writer,
                                   HeaderBytes(header, b1.deterministic, b1.long_names))
                          w2 == WriteAll(w1, data)
                          actual_size == Len(data)
                      IN  IF actual_size # header.size
                          THEN [b |-> [b1 EXCEPT !.writer = w2], result |-> "ErrWrongSize"]
                          ELSE [b |-> [b1 EXCEPT !.writer =
                                         IF actual_size % 2 # 0 THEN WriteAll(w2, NL) ELSE w2],
                                result |-> "Ok"]

----------------------------------------------------------------------------
(* ModuleDef, ShortExport and what the generators share                    *)

None == [some |-> FALSE, v |-> <<>>]
Some(v) == [some |-> TRUE, v |-> v]

\* ShortExport { name, ..Default::default() }
ShortExportDefault(name) ==
    [name |-> name, ext_name |-> None, symbol_name |-> <<>>, alias_target |-> <<>>,
     ordinal |-> 0, no_name |-> FALSE, data |-> FALSE, private |-> FALSE,
     constant |-> FALSE]

StartsWith(s, b) == Len(s) >= 1 /\ s[1] = b
Contains(s, b) == \E i \in 1..Len(s) : s[i] = b

\* is_decorated: starts with `@` or `?`, or contains `@`.
is_decorated(sym) == StartsWith(sym, 64) \/ StartsWith(sym, 63) \/ Contains(sym, 64)

\* Mutant of I386Prefix: ext_name is left as it is.
I386PrefixNameOnly(export, m) ==
    IF m # "I386" THEN export
    ELSE [export EXCEPT !.name = IF is_decorated(@) THEN @ ELSE Bytes("_") \o @]

\* parse_export, the I386 step: an undecorated name and ext_name get a `_`.
I386Prefix(export, m) ==
    IF m # "I386" THEN export
    ELSE [export EXCEPT
            !.name = IF is_decorated(@) THEN @ ELSE Bytes("_") \o @,
            !.ext_name = IF @.some /\ ~is_decorated(@.v) THEN Some(Bytes("_") \o @.v)
                         ELSE @]

\* Mutant of NormalizeExport: ext_name is cleared and the name is left.
NormalizeExportKeepName(export) == [export EXCEPT !.ext_name = None]

\* ImportLibrary::new / GnuImportLibrary::new, one export: ext_name.take()
\* replaces the name.
NormalizeExport(export) ==
    IF export.ext_name.some
    THEN [export EXCEPT !.name = export.ext_name.v, !.ext_name = None]
    ELSE export

\* The facade constructor: every export normalized.
FacadeNormalize(d) ==
    [d EXCEPT !.exports = [i \in 1..Len(d.exports) |-> NormalizeExport(d.exports[i])]]

\* ShortExport::import_type
import_type(export) ==
    IF export.data THEN "Data" ELSE IF export.constant THEN "Const" ELSE "Code"

\* ImportType as u16
ImportTypeCode(t) == CASE t = "Code" -> 0 [] t = "Data" -> 1 [] t = "Const" -> 2

\* ImportNameType as u16 (IMPORT_OBJECT_ORDINAL, _NAME, _NAME_NO_PREFIX,
\* _NAME_UNDECORATE)
ImportNameTypeCode(t) ==
    CASE t = "Ordinal" -> 0 [] t = "Name" -> 1 [] t = "NameNoPrefix" -> 2
      [] t = "NameUndecorate" -> 3

\* MachineType as u16 (IMAGE_FILE_MACHINE_*)
MachineCode(m) ==
    CASE m = "I386" -> 332 [] m = "ARMNT" -> 452 [] m = "AMD64" -> 34404
      [] m = "ARM64" -> 43620

\* MachineType::is_32bit
is_32bit(m) == m \in {"ARMNT", "I386"}

\* Mutant of get_name_type: the test for `_` with `@` is left out.
GetNameTypeNoStdcall(m, sym, ext_name) ==
    IF sym # ext_name THEN "NameUndecorate"
    ELSE IF m = "I386" /\ StartsWith(sym, 95) THEN "NameNoPrefix"
    ELSE "Name"

\* ImportLibrary::get_name_type
get_name_type(m, sym, ext_name) ==
    IF StartsWith(ext_name, 95) /\ Contains(ext_name, 64) THEN "Name"
    ELSE IF sym # ext_name THEN "NameUndecorate"
    ELSE IF m = "I386" /\ StartsWith(sym, 95) THEN "NameNoPrefix"
    ELSE "Name"

\* create_archive_entry: the header is named after the member, sized after
\* its data, with mode 0o644.  The mtime, uid and gid the header carries are
\* those of `meta`.
create_archive_entry(member, meta) ==
    [HeaderNew(member.name, Len(member.data)) EXCEPT
        !.mode = 420, !.mtime = meta.mtime, !.uid = meta.uid, !.gid = meta.gid]

\* CString::new(s) fails on an interior NUL.
HasNul(s) == Contains(s, 0)

----------------------------------------------------------------------------
(* The MSVC ObjectFactory (src/src/lib.rs)                                 *)

\* Sizes of the PE/COFF records of the `object` crate.
SizeOfImageFileHeader == 20
SizeOfImageSectionHeader == 40
SizeOfImageImportDescriptor == 20
SizeOfImageRelocation == 10
SizeOfImageSymbol == 18

\* A fixed-size COFF record.  Only its size is modelled: no property stated
\* here reads these fields.
CoffRecord(size) == Zeros(size)

NULL_IMPORT_DESCRIPTOR_SYMBOL_NAME == Bytes("__NULL_IMPORT_DESCRIPTOR")

\* ObjectFactory::new.  `&import_name[..import_name.len() - 4]` panics when the
\* name has fewer than 4 bytes.
MsvcFactoryNew(import_name, m) ==
    IF Len(import_name) < 4 THEN [panic |-> TRUE]
    ELSE LET library == SubSeq(import_name, 1, Len(import_name) - 4)
         IN  [panic |-> FALSE, machine |-> m, import_name |-> import_name,
              import_descriptor_symbol_name |-> Bytes("__IMPORT_DESCRIPTOR_") \o library,
              null_thunk_symbol_name |-> <<127>> \o library \o Bytes("_NULL_THUNK_DATA")]

\* write_string_table: the 4-byte length (itself included), then each string
\* NUL-terminated.
write_string_table(strings) ==
    LET body == SymbolNames(strings) IN U32LE(4 + Len(body)) \o body

\* An ArchiveMember; `kind` and `imp` tell the members apart when properties
\* are stated, `panic` is set when building it aborted.
Member(kind, name, data, symbols, imp, panic) ==
    [kind |-> kind, name |-> name, data |-> data, symbols |-> symbols, imp |-> imp,
     panic |-> panic]

create_import_descriptor(f) ==
    Member("import_descriptor", f.import_name,
        CoffRecord(SizeOfImageFileHeader) \o CoffRecord(2 * SizeOfImageSectionHeader)
            \o CoffRecord(SizeOfImageImportDescriptor)
            \o CoffRecord(3 * SizeOfImageRelocation)
            \o f.import_name \o NUL
            \o CoffRecord(7 * SizeOfImageSymbol)
            \o write_string_table(<<f.import_descriptor_symbol_name,
                    NULL_IMPORT_DESCRIPTOR_SYMBOL_NAME, f.null_thunk_symbol_name>>),
        <<f.import_descriptor_symbol_name>>, FALSE,
        HasNul(f.import_descriptor_symbol_name) \/ HasNul(f.null_thunk_symbol_name))

create_null_import_descriptor(f) ==
    Member("null_import_descriptor", f.import_name,
        CoffRecord(SizeOfImageFileHeader) \o CoffRecord(SizeOfImageSectionHeader)
            \o CoffRecord(SizeOfImageImportDescriptor) \o CoffRecord(SizeOfImageSymbol)
            \o write_string_table(<<NULL_IMPORT_DESCRIPTOR_SYMBOL_NAME>>),
        <<NULL_IMPORT_DESCRIPTOR_SYMBOL_NAME>>, FALSE, FALSE)

create_null_thunk(f) ==
    LET va_size == IF is_32bit(f.machine) THEN 4 ELSE 8
    IN  Member("null_thunk", f.import_name,
            CoffRecord(SizeOfImageFileHeader) \o CoffRecord(2 * SizeOfImageSectionHeader)
                \o Zeros(va_size) \o Zeros(va_size) \o CoffRecord(SizeOfImageSymbol)
                \o write_string_table(<<f.null_thunk_symbol_name>>),
            <<f.null_thunk_symbol_name>>, FALSE, HasNul(f.null_thunk_symbol_name))

\* Mutant of ShortImportSymbols: `<sym>` is left out for Const instead of Data.
ShortImportSymbolsConst(sym, type) ==
    IF type = "Const" THEN <<Bytes("__imp_") \o sym>>
    ELSE <<Bytes("__imp_") \o sym, sym>>

\* create_short_import: the archive symbols of the member.
ShortImportSymbols(sym, type) ==
    IF type = "Data" THEN <<Bytes("__imp_") \o sym>>
    ELSE <<Bytes("__imp_") \o sym, sym>>

\* create_short_import: the ImportObjectHeader, then `sym\0import_name\0`.
create_short_import(f, sym, ordinal, type, name_type) ==
    LET import_name_size == Len(f.import_name) + Len(sym) + 2
    IN  Member("short_import", f.import_name,
            U16LE(0) \o U16LE(65535) \o U16LE(0) \o U16LE(MachineCode(f.machine))
                \o U32LE(0) \o U32LE(import_name_size)
                \o U16LE(IF ordinal > 0 THEN ordinal ELSE 0)
                \o U16LE(ImportNameTypeCode(name_type) * 4 + ImportTypeCode(type))
                \o sym \o NUL \o f.import_name \o NUL,
            ShortImportSymbols(sym, type), FALSE,
            HasNul(sym) \/ HasNul(f.import_name))

create_weak_external(f, sym, weak, imp) ==
    LET prefix == IF imp THEN Bytes("__imp_") ELSE <<>>
    IN  Member("weak_external", f.import_name,
            CoffRecord(SizeOfImageFileHeader) \o CoffRecord(SizeOfImageSectionHeader)
                \o CoffRecord(5 * SizeOfImageSymbol)
                \o write_string_table(<<prefix \o sym, prefix \o weak>>),
            <<>>, imp, HasNul(sym) \/ HasNul(weak))

\* Mutant of ExportMembers: the short import is pushed before the weak pair.
ExportMembersShortFirst(f, export) ==
    IF export.private THEN <<>>
    ELSE LET sym == IF export.symbol_name = <<>> THEN export.name ELSE export.symbol_name
             name_type == IF export.no_name THEN "Ordinal"
                          ELSE get_name_type(f.machine, sym, export.name)
         IN  <<create_short_import(f, sym, export.ordinal, import_type(export), name_type)>>
             \o (IF export.alias_target # <<>> /\ sym # export.alias_target
                 THEN <<create_weak_external(f, export.alias_target, sym, FALSE),
                        create_weak_external(f, export.alias_target, sym, TRUE)>>
                 ELSE <<>>)

\* write_to, the body of the loop over the exports: the members one export
\* pushes.  An export whose ext_name is still set reaches `todo!()`.
ExportMembers(f, export) ==
    IF export.private THEN <<>>
    ELSE IF export.ext_name.some
    THEN <<Member("todo", f.import_name, <<>>, <<>>, FALSE, TRUE)>>
    ELSE LET sym == IF export.symbol_name = <<>> THEN export.name ELSE export.symbol_name
             name_type == IF export.no_name THEN "Ordinal"
                          ELSE get_name_type(f.machine, sym, export.name)
         IN  (IF export.alias_target # <<>> /\ sym # export.alias_target
              THEN <<create_weak_external(f, export.alias_target, sym, FALSE),
                     create_weak_external(f, export.alias_target, sym, TRUE)>>
              ELSE <<>>)
             \o <<create_short_import(f, sym, export.ordinal, import_type(export),
                                      name_type)>>

RECURSIVE MsvcExportsMembers(_, _)
MsvcExportsMembers(f, exports) ==
    IF exports = <<>> THEN <<>>
    ELSE ExportMembers(f, Head(exports)) \o MsvcExportsMembers(f, Tail(exports))

\* write_to: the members vector, in push order.
MsvcMembers(f, d) ==
    <<create_import_descriptor(f), create_null_import_descriptor(f), create_null_thunk(f)>>
        \o MsvcExportsMembers(f, d.exports)

----------------------------------------------------------------------------
(* The GNU ObjectFactory (src/src/gnu.rs)                                  *)

JMP_IX86_BYTES == <<255, 37, 0, 0, 0, 0, 144, 144>>
JMP_ARM_BYTES == <<0, 192, 159, 229, 0, 240, 156, 229, 0, 0, 0, 0>>

\* str::replace('.', "_")
ReplaceDots(s) == [i \in 1..Len(s) |-> IF s[i] = 46 THEN 95 ELSE s[i]]

\* format!("{:05}", n): at least five digits, zero-padded on the left.
Dec05(n) == LET d == Dec(n) IN Repeat(48, 5 - Len(d)) \o d

\* ObjectFactory::new: an import name holding a NUL is refused.
GnuFactoryNew(import_name, m) ==
    IF HasNul(import_name) THEN [err |-> TRUE]
    ELSE [err |-> FALSE, machine |-> m, import_name |-> import_name,
          output_name |-> import_name \o Bytes(".a"), seq |-> 0]

\* MachineType::img_rel_relocation
img_rel_relocation(m) ==
    CASE m = "AMD64" -> "IMAGE_REL_AMD64_ADDR32NB" [] m = "ARMNT" -> "IMAGE_REL_ARM_ADDR32NB"
      [] m = "ARM64" -> "IMAGE_REL_ARM64_ADDR32NB" [] m = "I386" -> "IMAGE_REL_I386_DIR32NB"

\* The name Object::add_symbol stores under the object's default mangling:
\* the `object` crate prefixes `_` for COFF on I386 and nothing elsewhere.
Mangled(m, name) == IF m = "I386" THEN Bytes("_") \o name ELSE name

Section(name, data, relocs) == [name |-> name, data |-> data, relocs |-> relocs]
Reloc(offset, symbol, kind) == [offset |-> offset, symbol |-> symbol, kind |-> kind]

\* Object::write of the `object` crate, reduced to what the archive needs: a
\* byte string fixed by the object's contents (its section data, then its
\* symbol names).
ObjectWrite(obj) ==
    Flatten([i \in 1..Len(obj.sections) |-> obj.sections[i].data])
        \o SymbolNames([i \in 1..Len(obj.symbols) |-> obj.symbols[i].name])

GnuMember(kind, name, obj, symbols, status) ==
    [kind |-> kind, name |-> name, obj |-> obj, data |-> ObjectWrite(obj),
     symbols |-> symbols, status |-> status]

make_head(f) ==
    LET import_name == ReplaceDots(f.import_name)
        img_rel == img_rel_relocation(f.machine)
        head_sym_name == Mangled(f.machine, Bytes("_head_") \o import_name)
        iname_sym_name == Mangled(f.machine, import_name \o Bytes("_iname"))
        obj == [sections |->
                  << Section(".text", <<>>, <<>>), Section(".data", <<>>, <<>>),
                     Section(".bss", <<>>, <<>>),
                     Section(".idata$2", Zeros(20),
                        << Reloc(0, Bytes(".idata$4"), img_rel),
                           Reloc(16, Bytes(".idata$5"), img_rel),
                           Reloc(12, iname_sym_name, img_rel) >>),
                     Section(".idata$5", <<>>, <<>>), Section(".idata$4", <<>>, <<>>) >>,
                symbols |->
                  << [name |-> Bytes("fake"), section |-> "file"],
                     [name |-> Bytes(".idata$5"), section |-> ".idata$5"],
                     [name |-> Bytes(".idata$4"), section |-> ".idata$4"],
                     [name |-> head_sym_name, section |-> ".idata$2"],
                     [name |-> iname_sym_name, section |-> "undefined"] >>]
    IN  GnuMember("head", ReplaceDots(f.output_name) \o Bytes("_h.o"), obj,
                  <<head_sym_name>>, "ok")

make_tail(f) ==
    LET import_name == ReplaceDots(f.import_name)
        iname_sym_name == Mangled(f.machine, import_name \o Bytes("_iname"))
        obj == [sections |->
                  << Section(".text", <<>>, <<>>), Section(".data", <<>>, <<>>),
                     Section(".bss", <<>>, <<>>),
                     Section(".idata$4", Zeros(8), <<>>), Section(".idata$5", Zeros(8), <<>>),
                     Section(".idata$7", f.import_name \o NUL, <<>>) >>,
                symbols |->
                  << [name |-> Bytes("fake"), section |-> "file"],
                     [name |-> iname_sym_name, section |-> ".idata$7"] >>]
    IN  GnuMember("tail", ReplaceDots(f.output_name) \o Bytes("_t.o"), obj,
                  <<iname_sym_name>>, "ok")

\* Mutant of JumpStub: the x86 template for every machine.
JumpStubIx86Only(m) ==
    CASE m = "I386" -> <<JMP_IX86_BYTES, 2, "IMAGE_REL_I386_REL32">>
      [] m = "ARMNT" -> <<JMP_IX86_BYTES, 2, "IMAGE_REL_ARM_REL32">>
      [] m = "AMD64" -> <<JMP_IX86_BYTES, 2, "IMAGE_REL_AMD64_REL32">>
      [] m = "ARM64" -> <<JMP_IX86_BYTES, 2, "IMAGE_REL_ARM64_REL32">>

\* make_one: (jmp_stub, offset, rel_kind) of the machine.
JumpStub(m) ==
    CASE m = "I386" -> <<JMP_IX86_BYTES, 2, "IMAGE_REL_I386_REL32">>
      [] m = "ARMNT" -> <<JMP_ARM_BYTES, 8, "IMAGE_REL_ARM_REL32">>
      [] m = "AMD64" -> <<JMP_IX86_BYTES, 2, "IMAGE_REL_AMD64_REL32">>
      [] m = "ARM64" -> <<JMP_ARM_BYTES, 8, "IMAGE_REL_ARM64_REL32">>

\* Mutant of StubArchiveSymbols: the name is exposed for a DATA export too.
StubArchiveSymbolsAlways(export) ==
    <<export.name, Bytes("__imp_") \o export.name>>

\* make_one: archive_symbols.
StubArchiveSymbols(export) ==
    (IF ~export.data THEN <<export.name>> ELSE <<>>)
        \o <<Bytes("__imp_") \o export.name>>

\* make_one: the stub for one export, built with the factory's current seq.
\* status is "err" for a name holding a NUL and "panic" when, on I386, a name
\* imported by name has no leading `_` to strip.
make_one(f, export) ==
    IF HasNul(export.name)
    THEN [kind |-> "stub", name |-> <<>>, obj |-> [sections |-> <<>>, symbols |-> <<>>],
          data |-> <<>>, symbols |-> <<>>, status |-> "err"]
    ELSE IF ~export.no_name /\ f.machine = "I386" /\ ~StartsWith(export.name, 95)
    THEN [kind |-> "stub", name |-> <<>>, obj |-> [sections |-> <<>>, symbols |-> <<>>],
          data |-> <<>>, symbols |-> <<>>, status |-> "panic"]
    ELSE
    LET import_name == ReplaceDots(f.import_name)
        img_rel == img_rel_relocation(f.machine)
        head_sym_name == Mangled(f.machine, Bytes("_head_") \o import_name)
        imp_name == Bytes("__imp_") \o export.name
        jmp == JumpStub(f.machine)
        ordinal_thunk == <<export.ordinal % 256, (export.ordinal \div 256) % 256,
                           0, 0, 0, 0, 0, 128>>
        thunk_data == IF export.no_name THEN ordinal_thunk ELSE Zeros(8)
        thunk_relocs == IF export.no_name THEN <<>>
                        ELSE <<Reloc(0, Bytes(".idata$6"), img_rel)>>
        export_name == IF f.machine = "I386" THEN Tail(export.name) ELSE export.name
        id6_data == IF export.no_name THEN <<>>
                    ELSE U16LE(export.ordinal) \o export_name \o NUL
        obj == [sections |->
                  << Section(".text",
                        IF ~export.data THEN jmp[1] ELSE <<>>,
                        IF ~export.data THEN <<Reloc(jmp[2], imp_name, jmp[3])>> ELSE <<>>),
                     Section(".data", <<>>, <<>>), Section(".bss", <<>>, <<>>),
                     Section(".idata$7", Zeros(4), <<Reloc(0, head_sym_name, img_rel)>>),
                     Section(".idata$5", thunk_data, thunk_relocs),
                     Section(".idata$4", thunk_data, thunk_relocs),
                     Section(".idata$6", id6_data, <<>>) >>,
                symbols |->
                  <<[name |-> head_sym_name, section |-> "undefined"]>>
                  \o (IF ~export.data THEN <<[name |-> export.name, section |-> ".text"]>>
                      ELSE <<>>)
                  \o <<[name |-> imp_name, section |-> ".idata$5"],
                       [name |-> Bytes(".idata$6"), section |-> ".idata$6"]>>]
    IN  GnuMember("stub",
                  ReplaceDots(f.output_name) \o Bytes("_s") \o Dec05(f.seq) \o Bytes(".o"),
                  obj, StubArchiveSymbols(export), "ok")

\* Mutant of GnuStubs: seq is not advanced after a stub.
GnuStubsNoAdvance(f, exports) ==
    [i \in 1..Len(exports) |-> make_one(f, exports[i])]

\* The loop over the exports: one make_one per export, seq advancing by one
\* after each.  (The loop leaves at the first stub that fails; see GnuAssemble.)
GnuStubs(f, exports) ==
    [i \in 1..Len(exports) |-> make_one([f EXCEPT !.seq = f.seq + i - 1], exports[i])]

Reverse(s) == [i \in 1..Len(s) |-> s[Len(s) + 1 - i]]

\* Mutant of GnuMemberOrder: head first, then the stubs, then the tail.
GnuMemberOrderHeadFirst(stubs, head, tail) == <<head>> \o stubs \o <<tail>>

\* Mutant of GnuMemberOrder: the tail is not pushed.
GnuMemberOrderNoTail(stubs, head, tail) == Reverse(stubs \o <<head>>)

\* write_to: the stubs are pushed, then head and tail, and the vector is
\* reversed.
GnuMemberOrder(stubs, head, tail) == Reverse(stubs \o <<head, tail>>)

----------------------------------------------------------------------------
(* write_to of both flavors                                                *)

RECURSIVE AppendAll(_, _, _)
RECURSIVE AppendNext(_, _, _, _)
\* The loop `for (header, member) in members { archive.append(..) }`: it stops
\* at the first append that fails.  `ats` collects where each header began.
AppendAll(b, entries, ats) ==
    IF entries = <<>> THEN [b |-> b, ats |-> ats, result |-> "Ok"]
    ELSE AppendNext(GnuBuilderAppend(b, Head(entries).header, Head(entries).data),
                    b.writer.pos, Tail(entries), ats)

AppendNext(r, at, rest, ats) ==
    IF r.result # "Ok" THEN [b |-> r.b, ats |-> ats, result |-> r.result]
    ELSE AppendAll(r.b, rest, Append(ats, at))

Entries(members, meta) ==
    [i \in 1..Len(members) |->
        [header |-> create_archive_entry(members[i], meta), data |-> members[i].data]]

\* What a run of write_to leaves: how it ended ("ok", "err" for a returned
\* error, "panic"), the members given to the builder, where the header of
\* each appended member began, and the bytes in the stream.
Outcome(status, members, ats, archive) ==
    [status |-> status, members |-> members, ats |-> ats, archive |-> archive]

\* write_to, the tail shared by both flavors: the builder is constructed from
\* the members' names and the symbol table, and every member is appended.
\* `failure` is how a failing builder call ends the run.
Finish(r, members, failure) ==
    Outcome(IF r.result = "Ok" THEN "ok" ELSE failure, members, r.ats, r.b.writer.buf)

Names(members) == [i \in 1..Len(members) |-> members[i].name]

WriteArchive(members, symbol_table, meta, iter, failure) ==
    Finish(AppendAll(NewWithSymbolTable(TRUE, Names(members), symbol_table, iter),
                     Entries(members, meta), <<>>),
           members, failure)

\* The members vector of ImportLibrary::write_to; building any member may
\* panic.
MsvcChecked(members) ==
    IF \E i \in 1..Len(members) : members[i].panic
    THEN [panic |-> TRUE, members |-> <<>>]
    ELSE [panic |-> FALSE, members |-> members]

MsvcBuildWith(f, d) ==
    IF f.panic THEN [panic |-> TRUE, members |-> <<>>]
    ELSE MsvcChecked(MsvcMembers(f, d))

\* The members ImportLibrary::write_to builds, or <<>> when building panics.
MsvcBuild(d, m) == MsvcBuildWith(MsvcFactoryNew(d.import_name, m), d)

\* write_to: the symbol table handed to the builder is a map with the single
\* key import_name, holding the symbols of all members: one group.
MsvcSymbolTable(members) ==
    <<Flatten([i \in 1..Len(members) |-> members[i].symbols])>>

MsvcArchive(built, meta, iter) ==
    IF built.panic THEN Outcome("panic", <<>>, <<>>, <<>>)
    ELSE WriteArchive(built.members, MsvcSymbolTable(built.members), meta, iter, "panic")

\* ImportLibrary::write_to (MSVC flavor); every builder call is unwrapped.
MsvcWriteTo(d, m, meta, iter) == MsvcArchive(MsvcBuild(d, m), meta, iter)

\* write_to: a stub that fails ends the run with its status; otherwise head
\* and tail are made and the vector is put in order.
GnuAssemble(f, stubs) ==
    LET failed == {i \in 1..Len(stubs) : stubs[i].status # "ok"}
    IN  IF failed # {}
        THEN [status |-> stubs[CHOOSE i \in failed : \A j \in failed : i <= j].status,
              members |-> <<>>]
        ELSE [status |-> "ok",
              members |-> GnuMemberOrder(stubs, make_head(f), make_tail(f))]

GnuBuildWith(f, d) ==
    IF f.err THEN [status |-> "err", members |-> <<>>]
    ELSE GnuAssemble(f, GnuStubs(f, d.exports))

\* The members GnuImportLibrary::write_to builds, or how building failed.
GnuBuild(d, m) == GnuBuildWith(GnuFactoryNew(d.import_name, m), d)

\* write_to: one symbol group per member.
GnuSymbolTable(members) == [i \in 1..Len(members) |-> members[i].symbols]

GnuArchive(built, meta, iter) ==
    IF built.status # "ok" THEN Outcome(built.status, <<>>, <<>>, <<>>)
    ELSE WriteArchive(built.members, GnuSymbolTable(built.members), meta, iter, "err")

\* GnuImportLibrary::write_to (GNU flavor); builder errors are returned.
GnuWriteTo(d, m, meta, iter) == GnuArchive(GnuBuild(d, m), meta, iter)

\* write_to up to the construction of the builder: the members are built.
Build(d, m, fl) ==
    IF fl = "msvc" THEN MsvcBuild(d, m) ELSE GnuBuild(d, m)

\* write_to from the construction of the builder on.
Archive(built, fl, meta, iter) ==
    IF fl = "msvc" THEN MsvcArchive(built, meta, iter) ELSE GnuArchive(built, meta, iter)

\* The long identifiers a run hands to the builder (the keys of long_names).
BuiltLongKeys(built) == LongKeys(Names(built.members))

----------------------------------------------------------------------------
(* The DEF lexer (src/src/def/parser.rs)                                   *)
(*                                                                         *)
(* The text is a sequence of bytes (the model's texts are ASCII, so a char *)
(* is one byte).  `pos` is the index of the next character chars.next()    *)
(* yields, counted from 1; Len(text) + 1 when the iterator is exhausted.   *)

\* Token { kind, value }, with the position of the lexer after it.
Token(kind, value, pos) == [kind |-> kind, value |-> value, pos |-> pos]

\* char::is_whitespace on ASCII: what str::trim removes.
WhiteSpace == {9, 10, 11, 12, 13, 32}

\* The characters that end a word: = , ; \r \n space \t \x0B
WordDelimiters == {61, 44, 59, 13, 10, 32, 9, 11}

\* The index of the first character of `text` at or after `from` that is in
\* S, or 0 when there is none.
FirstAt(text, from, S) ==
    IF \E j \in from..Len(text) : text[j] \in S
    THEN CHOOSE j \in from..Len(text) :
            text[j] \in S /\ \A k \in from..(j - 1) : text[k] \notin S
    ELSE 0

\* text[from..to), positions counted from 1.
Slice(text, from, to) == IF to <= from THEN <<>> ELSE SubSeq(text, from, to - 1)

\* str::trim
Trim(s) ==
    IF \A i \in 1..Len(s) : s[i] \in WhiteSpace THEN <<>>
    ELSE Slice(s, FirstAt(s, 1, 0..255 \ WhiteSpace),
               1 + (CHOOSE j \in 1..Len(s) :
                       s[j] \notin WhiteSpace /\ \A k \in (j + 1)..Len(s) : s[k] \in WhiteSpace))

\* The `match word` of the lexer.
KeywordKind(word) ==
    CASE word = Bytes("BASE") -> "KwBase"
      [] word = Bytes("CONSTANT") -> "KwConstant"
      [] word = Bytes("DATA") -> "KwData"
      [] word = Bytes("EXPORTS") -> "KwExports"
      [] word = Bytes("HEAPSIZE") -> "KwHeapsize"
      [] word = Bytes("LIBRARY") -> "KwLibrary"
      [] word = Bytes("NAME") -> "KwName"
      [] word = Bytes("NONAME") -> "KwNoname"
      [] word = Bytes("PRIVATE") -> "KwPrivate"
      [] word = Bytes("STACKSIZE") -> "KwStacksize"
      [] word = Bytes("VERSION") -> "KwVersion"
      [] OTHER -> "Identifier"

\* Where the iterator stands after a loop that stopped at index `at` (the
\* character at `at` is consumed), or ran to the end when at = 0.
After(text, at) == IF at = 0 THEN Len(text) + 1 ELSE at + 1

RECURSIVE LexerNext(_, _)
RECURSIVE LexWord(_, _, _)
RECURSIVE LexComment(_, _)

\* Lexer::next, the `;` arm: the characters up to and including the next
\* `\n` are dropped and the lexer goes on.
LexComment(text, at) == LexerNext(text, After(text, at))

\* Lexer::next, the last arm: the word runs from `i` to `end` (exclusive);
\* an empty word makes the lexer go on.
LexWord(text, word, next) ==
    IF word = <<>> THEN LexerNext(text, next)
    ELSE Token(KeywordKind(word), Some(word), next)

\* Lexer::next, the `"` arm: without a closing quote `end` stays i + 1.
LexQuoted(text, i, at) ==
    Token("Identifier",
          Some(Trim(Slice(text, i + 1, IF at = 0 THEN i + 1 ELSE at))),
          After(text, at))

\* Lexer::next, the last arm: `end` is the index of the delimiter that stopped
\* the loop; without one it is past the last character seen, and `i` itself
\* when the loop saw no character.
WordEnd(text, i, at) ==
    IF at # 0 THEN at ELSE IF i = Len(text) THEN i ELSE Len(text) + 1

\* Lexer::next
LexerNext(text, pos) ==
    IF pos > Len(text) THEN Token("Eof", None, pos)
    ELSE CASE text[pos] = 0 -> Token("Eof", None, pos + 1)
           [] text[pos] = 59 -> LexComment(text, FirstAt(text, pos + 1, {10}))
           [] text[pos] = 61 ->
                IF pos + 1 <= Len(text) /\ text[pos + 1] = 61
                THEN Token("EqualEqual", Some(Bytes("==")), pos + 2)
                ELSE Token("Equal", Some(Bytes("=")), pos + 1)
           [] text[pos] = 44 -> Token("Comma", Some(Bytes(",")), pos + 1)
           [] text[pos] = 34 -> LexQuoted(text, pos, FirstAt(text, pos + 1, {34}))
           [] OTHER ->
                LexWord(text,
                        Trim(Slice(text, pos,
                                   WordEnd(text, pos, FirstAt(text, pos + 1, WordDelimiters)))),
                        After(text, FirstAt(text, pos + 1, WordDelimiters)))

----------------------------------------------------------------------------
(* The DEF parser (src/src/def/parser.rs)                                  *)

\* ModuleDef::default()
ModuleDefDefault ==
    [exports |-> <<>>, import_name |-> <<>>, image_base |-> 0,
     stack_reserve |-> 0, stack_commit |-> 0, heap_reserve |-> 0, heap_commit |-> 0,
     major_image_version |-> 0, minor_image_version |-> 0]

\* Parser::new.  `status` is "running" while parse loops, "eof" when parse_one
\* returned Ok(true), "err" when an Err was returned (`error` is its
\* ErrorKind) and "panic" when an expect failed.  `depth` and `lexed` are
\* history fields: the largest number of tokens the stack has held, and the
\* number of calls of Lexer::next.
ParserNew(text, m) ==
    [text |-> text, pos |-> 1, stack |-> <<>>, def |-> ModuleDefDefault, machine |-> m,
     status |-> "running", error |-> "none", depth |-> 0, lexed |-> 0]

\* Err(Error::new(kind, ..))
Fail(p, kind) == [p EXCEPT !.status = "err", !.error = kind]

\* Option::expect on None
Panic(p) == [p EXCEPT !.status = "panic"]

\* self.stack.push(token)
Push(p, tok) ==
    [p EXCEPT !.stack = Append(@, tok),
              !.depth = IF Len(p.stack) + 1 > @ THEN Len(p.stack) + 1 ELSE @]

\* Parser::read, the token taken from the lexer.
ReadLexed(p, t) ==
    [tok |-> [kind |-> t.kind, value |-> t.value],
     p |-> [p EXCEPT !.pos = t.pos, !.lexed = @ + 1]]

\* Mutant of Read: the stack is never popped.
ReadLexerOnly(p) == ReadLexed(p, LexerNext(p.text, p.pos))

\* Parser::read: the token on top of the stack, or else the lexer's next.
Read(p) ==
    IF p.stack # <<>>
    THEN [tok |-> p.stack[Len(p.stack)],
          p |-> [p EXCEPT !.stack = SubSeq(@, 1, Len(@) - 1)]]
    ELSE ReadLexed(p, LexerNext(p.text, p.pos))

IsDigits(s) == \A i \in 1..Len(s) : s[i] \in 48..57

\* The decimal text of the largest value of u16, u32 and u64.
U16MaxText == Bytes("65535")
U32MaxText == Bytes("4294967295")
U64MaxText == Bytes("18446744073709551615")

\* Values are kept exactly up to this one; a larger value that still fits its
\* type is kept as ValueCap + 1.
ValueCap == 99999999

RECURSIVE StripZeros(_)
StripZeros(s) == IF s # <<>> /\ s[1] = 48 THEN StripZeros(Tail(s)) ELSE s

RECURSIVE DigitsValue(_, _)
DigitsValue(s, acc) ==
    IF s = <<>> THEN acc
    ELSE DigitsValue(Tail(s),
                     IF acc * 10 + (s[1] - 48) > ValueCap THEN ValueCap + 1
                     ELSE acc * 10 + (s[1] - 48))

\* The digits `d` (without leading zeros) do not exceed the digits `max`.
FitsDigits(d, max) == Len(d) < Len(max) \/ (Len(d) = Len(max) /\ LexLeq(d, max))

\* str::parse of the digits that follow an optional `+`.
ParseDigits(s, max) ==
    IF s = <<>> \/ ~IsDigits(s) \/ ~FitsDigits(StripZeros(s), max) THEN None
    ELSE Some(DigitsValue(s, 0))

\* str::parse::<u16 / u32 / u64>: decimal digits after an optional `+`; the
\* empty text, any other character and a value too large are errors.
ParseUnsigned(s, max) ==
    IF s # <<>> /\ s[1] = 43 THEN ParseDigits(Tail(s), max) ELSE ParseDigits(s, max)

\* Parser::read_as_int, given the token read.
ReadAsIntParsed(p, n) ==
    IF n.some THEN [p |-> p, n |-> n.v] ELSE [p |-> Fail(p, "InvalidInput"), n |-> 0]

ReadAsIntToken(r) ==
    IF r.tok.kind # "Identifier" THEN [p |-> Fail(r.p, "InvalidInput"), n |-> 0]
    ELSE IF ~r.tok.value.some THEN [p |-> Panic(r.p), n |-> 0]
    ELSE ReadAsIntParsed(r.p, ParseUnsigned(r.tok.value.v, U64MaxText))

\* Parser::read_as_int
read_as_int(p) == ReadAsIntToken(Read(p))

\* Parser::parse_numbers: reserve[,commit]
NumbersCommit(a, reserve) == [p |-> a.p, reserve |-> reserve, commit |-> a.n]

NumbersComma(r, reserve) ==
    IF r.tok.kind # "Comma"
    THEN [p |-> Push(r.p, r.tok), reserve |-> reserve, commit |-> 0]
    ELSE NumbersCommit(read_as_int(r.p), reserve)

NumbersReserve(a) ==
    IF a.p.status # "running" THEN [p |-> a.p, reserve |-> 0, commit |-> 0]
    ELSE NumbersComma(Read(a.p), a.n)

parse_numbers(p) == NumbersReserve(read_as_int(p))

\* Parser::parse_name: outputPath [BASE=address]
NameBaseValue(a, name) == [p |-> a.p, name |-> name, base |-> a.n]

NameBaseEqual(r, name) ==
    IF r.tok.kind # "Equal" THEN [p |-> Fail(r.p, "InvalidInput"), name |-> name, base |-> 0]
    ELSE NameBaseValue(read_as_int(r.p), name)

NameBase(r, name) ==
    IF r.tok.kind = "KwBase" THEN NameBaseEqual(Read(r.p), name)
    ELSE [p |-> Push(r.p, r.tok), name |-> name, base |-> 0]

NameToken(r) ==
    IF r.tok.kind # "Identifier" THEN [p |-> Push(r.p, r.tok), name |-> <<>>, base |-> 0]
    ELSE IF ~r.tok.value.some THEN [p |-> Panic(r.p), name |-> <<>>, base |-> 0]
    ELSE NameBase(Read(r.p), r.tok.value.v)

parse_name(p) == NameToken(Read(p))

\* str::split_once('.'): the text before and after the first `.`.
SplitOnce(s, at) ==
    IF at = 0 THEN None ELSE Some(<<Slice(s, 1, at), Slice(s, at + 1, Len(s) + 1)>>)

\* Parser::parse_version: major[.minor]
VersionParsed(p, major, minor) ==
    IF major.some /\ minor.some THEN [p |-> p, major |-> major.v, minor |-> minor.v]
    ELSE [p |-> Fail(p, "InvalidInput"), major |-> 0, minor |-> 0]

VersionSplit(p, value, parts) ==
    IF parts.some
    THEN VersionParsed(p, ParseUnsigned(parts.v[1], U32MaxText),
                       ParseUnsigned(parts.v[2], U32MaxText))
    ELSE VersionParsed(p, ParseUnsigned(value, U32MaxText), Some(0))

VersionToken(r) ==
    IF r.tok.kind # "Identifier" THEN [p |-> Fail(r.p, "InvalidInput"), major |-> 0, minor |-> 0]
    ELSE IF ~r.tok.value.some THEN [p |-> Panic(r.p), major |-> 0, minor |-> 0]
    ELSE VersionSplit(r.p, r.tok.value.v,
                      SplitOnce(r.tok.value.v, FirstAt(r.tok.value.v, 1, {46})))

parse_version(p) == VersionToken(Read(p))

RECURSIVE ExportModifiers(_, _)
RECURSIVE ExportNoname(_, _)
RECURSIVE ExportOrdinal(_, _)
RECURSIVE ExportAlias(_, _)

\* parse_export: self.def.exports.push(export) after the token is pushed back.
ExportDone(p, tok, export) ==
    [Push(p, tok) EXCEPT !.def.exports = Append(@, export)]

\* parse_export, `foo @ 10`: the token after `@` is the ordinal.
ExportOrdinalParsed(p, export, ordinal) ==
    IF ordinal.some THEN ExportNoname(Read(p), [export EXCEPT !.ordinal = ordinal.v])
    ELSE Fail(p, "InvalidInput")

ExportOrdinal(r, export) ==
    IF r.tok.value.some
    THEN ExportOrdinalParsed(r.p, export, ParseUnsigned(r.tok.value.v, U16MaxText))
    ELSE Fail(r.p, "InvalidInput")

\* parse_export: NONAME after an ordinal, then the loop continues.
ExportNoname(r, export) ==
    IF r.tok.kind = "KwNoname"
    THEN ExportModifiers(Read(r.p), [export EXCEPT !.no_name = TRUE])
    ELSE ExportModifiers(Read(Push(r.p, r.tok)), export)

\* Mutant of ExportAlias: the value of the token after `==` is unwrapped.
ExportAliasUnwrap(r, export) ==
    IF r.tok.value.some
    THEN ExportModifiers(Read(r.p), [export EXCEPT !.alias_target = r.tok.value.v])
    ELSE Panic(r.p)

\* parse_export: the token after `==` is the alias target.
ExportAlias(r, export) ==
    IF r.tok.value.some
    THEN ExportModifiers(Read(r.p), [export EXCEPT !.alias_target = r.tok.value.v])
    ELSE Fail(r.p, "InvalidInput")

\* parse_export, one turn of its loop, given the token read.  A token `@N`
\* with N a u16 leaves export.ordinal as it is.
ExportModifiers(r, export) ==
    IF r.tok.kind = "Identifier" /\ r.tok.value.some /\ StartsWith(r.tok.value.v, 64)
    THEN IF r.tok.value.v = Bytes("@") THEN ExportOrdinal(Read(r.p), export)
         ELSE IF ~ParseUnsigned(Tail(r.tok.value.v), U16MaxText).some
              THEN ExportDone(r.p, r.tok, export)
              ELSE ExportNoname(Read(r.p), export)
    ELSE CASE r.tok.kind = "KwData" ->
                ExportModifiers(Read(r.p), [export EXCEPT !.data = TRUE])
           [] r.tok.kind = "KwConstant" ->
                ExportModifiers(Read(r.p), [export EXCEPT !.constant = TRUE])
           [] r.tok.kind = "KwPrivate" ->
                ExportModifiers(Read(r.p), [export EXCEPT !.private = TRUE])
           [] r.tok.kind = "EqualEqual" -> ExportAlias(Read(r.p), export)
           [] OTHER -> ExportDone(r.p, r.tok, export)

\* parse_export, `A = B`: ext_name takes the name read first and name the
\* identifier after `=`; then the I386 step.
ExportExtName(r, export) ==
    IF r.tok.kind # "Identifier" THEN Fail(r.p, "InvalidInput")
    ELSE IF ~r.tok.value.some THEN Panic(r.p)
    ELSE ExportModifiers(Read(r.p),
            I386Prefix([export EXCEPT !.ext_name = Some(export.name),
                                      !.name = r.tok.value.v], r.p.machine))

\* parse_export, the token after the name.
ExportName(r, export) ==
    IF r.tok.kind = "Equal" THEN ExportExtName(Read(r.p), export)
    ELSE ExportModifiers(Read(Push(r.p, r.tok)), I386Prefix(export, r.p.machine))

\* Parser::parse_export
parse_export(p, token) ==
    IF ~token.value.some THEN Panic(p)
    ELSE ExportName(Read(p), ShortExportDefault(token.value.v))

RECURSIVE ExportsLoop(_)
RECURSIVE ExportsNext(_)

\* parse_one, the EXPORTS arm: exports are parsed until a token that is not an
\* identifier, which is pushed back.
ExportsLoop(r) ==
    IF r.tok.kind # "Identifier" THEN Push(r.p, r.tok)
    ELSE ExportsNext(parse_export(r.p, r.tok))

ExportsNext(p) == IF p.status # "running" THEN p ELSE ExportsLoop(Read(p))

\* parse_one, the arms that store what a directive parsed.
StoreHeapsize(a) ==
    IF a.p.status # "running" THEN a.p
    ELSE [a.p EXCEPT !.def.heap_reserve = a.reserve, !.def.heap_commit = a.commit]

StoreStacksize(a) ==
    IF a.p.status # "running" THEN a.p
    ELSE [a.p EXCEPT !.def.stack_reserve = a.reserve, !.def.stack_commit = a.commit]

StoreName(a) ==
    IF a.p.status # "running" THEN a.p
    ELSE [a.p EXCEPT !.def.import_name = a.name, !.def.image_base = a.base]

StoreVersion(a) ==
    IF a.p.status # "running" THEN a.p
    ELSE [a.p EXCEPT !.def.major_image_version = a.major,
                     !.def.minor_image_version = a.minor]

\* Mutant of ParseDirective: a token that starts no directive is pushed back
\* and parse_one returns Ok(false).
ParseDirectivePushBack(r) ==
    CASE r.tok.kind = "Eof" -> [r.p EXCEPT !.status = "eof"]
      [] r.tok.kind = "KwExports" -> ExportsLoop(Read(r.p))
      [] r.tok.kind = "KwHeapsize" -> StoreHeapsize(parse_numbers(r.p))
      [] r.tok.kind = "KwStacksize" -> StoreStacksize(parse_numbers(r.p))
      [] r.tok.kind \in {"KwLibrary", "KwName"} -> StoreName(parse_name(r.p))
      [] r.tok.kind = "KwVersion" -> StoreVersion(parse_version(r.p))
      [] OTHER -> Push(r.p, r.tok)

\* parse_one, given the token read.
ParseDirective(r) ==
    CASE r.tok.kind = "Eof" -> [r.p EXCEPT !.status = "eof"]
      [] r.tok.kind = "KwExports" -> ExportsLoop(Read(r.p))
      [] r.tok.kind = "KwHeapsize" -> StoreHeapsize(parse_numbers(r.p))
      [] r.tok.kind = "KwStacksize" -> StoreStacksize(parse_numbers(r.p))
      [] r.tok.kind \in {"KwLibrary", "KwName"} -> StoreName(parse_name(r.p))
      [] r.tok.kind = "KwVersion" -> StoreVersion(parse_version(r.p))
      [] OTHER -> IF r.tok.value.some THEN Fail(r.p, "InvalidInput") ELSE Panic(r.p)

\* Parser::parse_one
parse_one(p) == ParseDirective(Read(p))

RECURSIVE ParseLoop(_)
\* Parser::parse: parse_one until it reports the end or fails.
ParseLoop(p) == IF p.status # "running" THEN p ELSE ParseLoop(parse_one(p))

\* Parser::new(text, machine).parse()
Parse(text, m) == ParseLoop(ParserNew(text, m))

----------------------------------------------------------------------------
(* Spec: a ModuleDef as the parser leaves it, normalized by the facade and *)
(* written twice                                                           *)

NoArgs == [deterministic |-> TRUE, identifiers |-> <<>>, symbol_table |-> <<>>]

NoBuilder ==
    [writer |-> EmptyStream, deterministic |-> TRUE, short_names |-> {},
     long_names |-> EmptyMap, symbol_table_relocations |-> <<>>, symbol_index |-> 0,
     name_table_at |-> 0, name_table_len |-> 0]

NoDef == [exports |-> <<>>, import_name |-> <<>>]

NoOut == [status |-> "none", members |-> <<>>, ats |-> <<>>, archive |-> <<>>]

NoParser == ParserNew(<<>>, "AMD64")

\* How many exports a ModuleDef holds at most.
MaxExports == 2

Machines == {"AMD64", "I386"}
Flavors == {"msvc", "gnu"}

\* import_name: no LIBRARY directive, a name shorter than 4 bytes, a usual
\* name, a name longer than 15 bytes.
ImportNames == { <<>>, Bytes("k.d"), Bytes("foo.dll"), Bytes("long_library_name.dll") }

\* Export entries as parse_export leaves them before its I386 step:
\* `bar`, `baz DATA CONSTANT`, `qux @7 NONAME CONSTANT`, `prv PRIVATE == other`,
\* `alpha == beta`, `A = B == A`.
ExportEntries ==
    { ShortExportDefault(Bytes("bar")),
      [ShortExportDefault(Bytes("baz")) EXCEPT !.data = TRUE, !.constant = TRUE],
      [ShortExportDefault(Bytes("qux")) EXCEPT !.ordinal = 7, !.no_name = TRUE,
                                               !.constant = TRUE],
      [ShortExportDefault(Bytes("prv")) EXCEPT !.private = TRUE,
                                               !.alias_target = Bytes("other")],
      [ShortExportDefault(Bytes("alpha")) EXCEPT !.alias_target = Bytes("beta")],
      [ShortExportDefault(Bytes("B")) EXCEPT !.ext_name = Some(Bytes("A")),
                                             !.alias_target = Bytes("A")] }

ExportLists == UNION {[1..n -> ExportEntries] : n \in 0..MaxExports}

\* The metadata a header may carry.
Metas == { [mtime |-> 0, uid |-> 0, gid |-> 0], [mtime |-> 1700000000, uid |-> 501, gid |-> 20] }

Init ==
    /\ pc = "parsed"
    /\ machine \in Machines
    /\ flavor \in Flavors
    /\ \E name \in ImportNames, exports \in ExportLists :
         def = [exports |-> [i \in 1..Len(exports) |-> I386Prefix(exports[i], machine)],
                import_name |-> name]
    /\ args = NoArgs
    /\ ar = NoBuilder
    /\ calls = <<>>
    /\ out = NoOut
    /\ out2 = NoOut
    /\ parser = NoParser

\* ImportLibrary::new / GnuImportLibrary::new
FacadeNew ==
    /\ pc = "parsed"
    /\ def' = FacadeNormalize(def)
    /\ pc' = "ready"
    /\ UNCHANGED <<args, ar, calls, machine, flavor, out, out2, parser>>

\* write_to, first run
RunWriteTo ==
    /\ pc = "ready"
    /\ \E built \in {Build(def, machine, flavor)} :
         \E meta \in Metas, iter \in Orders(BuiltLongKeys(built)) :
            out' = Archive(built, flavor, meta, iter)
    /\ pc' = "written"
    /\ UNCHANGED <<args, ar, calls, def, machine, flavor, out2, parser>>

\* write_to, run again on the same input
RunWriteToAgain ==
    /\ pc = "written"
    /\ \E built \in {Build(def, machine, flavor)} :
         \E meta \in Metas, iter \in Orders(BuiltLongKeys(built)) :
            out2' = Archive(built, flavor, meta, iter)
    /\ pc' = "done"
    /\ UNCHANGED <<args, ar, calls, def, machine, flavor, out, parser>>

Next == FacadeNew \/ RunWriteTo \/ RunWriteToAgain

Spec == Init /\ [][Next]_vars

----------------------------------------------------------------------------
(* SpecAr: a client driving GnuBuilder directly                            *)

\* How many append calls the client makes at most.
MaxAppends == 2

ShortId == Bytes("a.o")
LongId1 == Bytes("long_member_01.o")
LongId2 == Bytes("long_member_002.o")
UndeclaredId == Bytes("zz.o")

\* The identifier lists the client may promise.
IdLists ==
    { <<>>, <<ShortId>>, <<LongId1>>, <<ShortId, ShortId>>, <<LongId2, ShortId>>,
      <<LongId1, LongId1>>, <<LongId1, LongId2>>, <<LongId2, LongId1>> }

NoSymbols == <<>>
TwoSymbols == <<Bytes("x"), Bytes("yy")>>

\* The symbol tables the client may give for n promised members: none, one
\* group per member, or fewer groups than members (among them the single
\* group holding every symbol).
SymbolTables(n) ==
    { <<>> }
    \cup { [i \in 1..n |-> TwoSymbols],
           [i \in 1..n |-> IF i % 2 = 1 THEN TwoSymbols ELSE NoSymbols],
           [i \in 1..n |-> IF i % 2 = 1 THEN NoSymbols ELSE TwoSymbols] }
    \cup { <<Flatten([i \in 1..n |-> TwoSymbols])>> }

\* The member data: `len` bytes.
MemberData(len) == Repeat(42, len)

\* (header.size, bytes the reader yields): even, odd, and a reader that yields
\* one byte more than declared.
SizeCases == { <<2, 2>>, <<3, 3>>, <<2, 3>> }

\* The metadata a client's header carries.
ClientHeader(identifier, size) ==
    [identifier |-> identifier, mtime |-> 1, uid |-> 2, gid |-> 3, mode |-> 420,
     size |-> size]


InitAr ==
    /\ pc = "ar_new"
    /\ args = NoArgs
    /\ ar = NoBuilder
    /\ calls = <<>>
    /\ def = NoDef
    /\ machine = "AMD64"
    /\ flavor = "none"
    /\ out = NoOut
    /\ out2 = NoOut
    /\ parser = NoParser

ArNew ==
    /\ pc = "ar_new"
    /\ \E deterministic \in BOOLEAN, identifiers \in IdLists :
         \E symbol_table \in SymbolTables(Len(identifiers)),
            iter \in Orders(LongKeys(identifiers)) :
            /\ args' = [deterministic |-> deterministic, identifiers |-> identifiers,
                        symbol_table |-> symbol_table]
            /\ ar' = NewWithSymbolTable(deterministic, identifiers, symbol_table, iter)
    /\ pc' = "ar_append"
    /\ UNCHANGED <<calls, def, machine, flavor, out, out2, parser>>

ArAppend ==
    /\ pc = "ar_append"
    /\ Len(calls) < MaxAppends
    /\ \E identifier \in Range(args.identifiers) \cup {UndeclaredId}, sc \in SizeCases :
         LET header == ClientHeader(identifier, sc[1])
             r == GnuBuilderAppend(ar, header, MemberData(sc[2]))
         IN  /\ ar' = r.b
             /\ calls' = Append(calls,
                    [header |-> header, data_len |-> sc[2], at |-> ar.writer.pos,
                     group |-> ar.symbol_index + 1, result |-> r.result])
    /\ UNCHANGED <<pc, args, def, machine, flavor, out, out2, parser>>

NextAr == ArNew \/ ArAppend

SpecAr == InitAr /\ [][NextAr]_vars

----------------------------------------------------------------------------
(* SpecParse: a DEF text parsed one directive at a time, the ModuleDef     *)
(* normalized by the facade and written                                    *)

AllMachines == {"I386", "ARMNT", "AMD64", "ARM64"}

\* One entry of an EXPORTS block as it is written: `name`, or `name = rename`,
\* then ` @ ordinal`, ` NONAME` and the modifier words.
Entry(name, rename, ordinal, noname, words) ==
    [name |-> name, rename |-> rename, ordinal |-> ordinal, noname |-> noname,
     words |-> words]

Plain(name) == Entry(Bytes(name), None, 0, FALSE, <<>>)
WithWords(name, words) == Entry(Bytes(name), None, 0, FALSE, words)

EntryText(e) ==
    e.name
      \o (IF e.rename.some THEN Bytes(" = ") \o e.rename.v ELSE <<>>)
      \o (IF e.ordinal > 0 THEN Bytes(" @ ") \o Dec(e.ordinal) ELSE <<>>)
      \o (IF e.noname THEN Bytes(" NONAME") ELSE <<>>)
      \o Flatten([i \in 1..Len(e.words) |-> Bytes(" ") \o Bytes(e.words[i])])

\* A DEF text: an optional LIBRARY line, then EXPORTS and the entries, each
\* after the separator `sep`, then `ending`.
DefCase(library, entries, sep, ending) ==
    [library |-> library, entries |-> entries, sep |-> sep, ending |-> ending]

CaseText(c) ==
    (IF c.library # <<>> THEN Bytes("LIBRARY ") \o c.library \o NL ELSE <<>>)
      \o Bytes("EXPORTS")
      \o Flatten([i \in 1..Len(c.entries) |-> c.sep \o EntryText(c.entries[i])])
      \o c.ending

\* EXPORTS blocks: `EXPORTS\n foo\n bar DATA`; `LIBRARY p.dll\nEXPORTS\nA\nB DATA`;
\* the same ending in the one-letter name `B`; `LIBRARY foo.dll\nEXPORTS\nbar\n`;
\* `x @ 7 NONAME`; `A = B`; modifiers before an export without any; decorated
\* names.
ExportCases ==
    { DefCase(<<>>, <<Plain("foo"), WithWords("bar", <<"DATA">>)>>, NL \o Bytes(" "), <<>>),
      DefCase(Bytes("p.dll"), <<Plain("A"), WithWords("B", <<"DATA">>)>>, NL, <<>>),
      DefCase(Bytes("foo.dll"), <<Plain("A"), Plain("B")>>, NL, <<>>),
      DefCase(Bytes("foo.dll"), <<Plain("bar")>>, NL, NL),
      DefCase(Bytes("k.dll"), <<Entry(Bytes("x"), None, 7, TRUE, <<>>)>>, NL, NL),
      DefCase(Bytes("foo.dll"), <<Entry(Bytes("A"), Some(Bytes("B")), 0, FALSE, <<>>)>>, NL, NL),
      DefCase(Bytes("foo.dll"),
              <<WithWords("qux", <<"PRIVATE", "DATA">>), WithWords("baz", <<"CONSTANT">>)>>,
              NL, NL),
      DefCase(Bytes("foo.dll"), <<WithWords("baz", <<"CONSTANT">>), Plain("foo")>>, NL, NL),
      DefCase(Bytes("foo.dll"), <<Plain("foo"), Plain("@bar")>>, NL, NL),
      DefCase(Bytes("foo.dll"), <<Plain("?baz"), Plain("_qux@4")>>, NL, NL) }

\* ` ; <anything>\n <directive>`
Commented(anything, directive) ==
    Bytes(" ; ") \o anything \o NL \o Bytes(" ") \o directive

CommentBodies == { <<>>, Bytes("comment"), Bytes("EXPORTS hidden") }
Directives == { Bytes("LIBRARY foo.dll"), Bytes("EXPORTS foo") }

CommentTexts ==
    Directives
      \cup {Commented(a, d) : a \in CommentBodies, d \in Directives}
      \cup { Bytes(";") \o NL \o Bytes("; comment") \o NL \o Bytes("LIBRARY p.dll") \o NL
                \o Bytes("EXPORTS") \o NL \o Bytes("A") \o NL \o Bytes("B DATA") }

\* `EXPORTS D\u{c}\0` and a library name holding a NUL.
NulTexts ==
    { Bytes("EXPORTS D") \o <<12, 0>>,
      Bytes("LIBRARY a") \o <<0>> \o Bytes("b.dll") \o NL \o Bytes("EXPORTS foo") \o NL,
      Bytes("LIBRARY foo.dll") \o NL \o Bytes("EXPORTS a") \o <<0>> \o Bytes("b") \o NL }

\* The empty text, the other directives, and texts the parser refuses.
OtherTexts ==
    { <<>>,
      Bytes("VERSION 1.2") \o NL \o Bytes("HEAPSIZE 10 ,20") \o NL \o Bytes("STACKSIZE 5") \o NL
          \o Bytes("NAME foo.dll BASE = 4") \o NL,
      Bytes("foo"),
      Bytes("EXPORTS 8= @"),
      Bytes(" ") \o <<11>> \o Bytes("EXPORTS D ") \o <<11>> \o Bytes("==="),
      Bytes("EXPORTS a @ 70000 "),
      Bytes("VERSION 1.x"),
      Bytes("HEAPSIZE"),
      Bytes("NAME foo BASE 4"),
      Bytes("EXPORTS a = , "),
      Bytes("EXPORTS a @ x "),
      Bytes("VERSION"),
      Bytes("VERSION x.1 "),
      Bytes("VERSION seven "),
      Bytes("HEAPSIZE x "),
      Bytes("STACKSIZE 1,"),
      Bytes(", "),
      Bytes("DATA "),
      <<34>>,
      Bytes("EXPORTS a") \o NL \o <<0>> \o Bytes(" b") \o NL }

\* A word with `=`, `==`, `,` or `;` right behind it, and the same text with
\* whitespace between them.
Attached(attached, spaced) == [attached |-> attached, spaced |-> spaced]

DelimiterCases ==
    { Attached(Bytes("EXPORTS a=b") \o NL, Bytes("EXPORTS a = b") \o NL),
      Attached(Bytes("EXPORTS a==b") \o NL, Bytes("EXPORTS a == b") \o NL),
      Attached(Bytes("HEAPSIZE 10,20") \o NL, Bytes("HEAPSIZE 10 , 20") \o NL),
      Attached(Bytes("LIBRARY foo.dll;c") \o NL \o Bytes("EXPORTS x") \o NL,
               Bytes("LIBRARY foo.dll ;c") \o NL \o Bytes("EXPORTS x") \o NL) }

DelimiterTexts == {c.attached : c \in DelimiterCases} \cup {c.spaced : c \in DelimiterCases}

\* `HEAPSIZE r, c`, `HEAPSIZE r,c`, `HEAPSIZE r` and the same for STACKSIZE,
\* each with the reserve and commit it names.
Numbers(directive, text, reserve, commit) ==
    [directive |-> directive, text |-> text, reserve |-> reserve, commit |-> commit]

NumbersCases ==
    { Numbers("HEAPSIZE", Bytes("HEAPSIZE 10, 20") \o NL, 10, 20),
      Numbers("HEAPSIZE", Bytes("HEAPSIZE 10,20") \o NL, 10, 20),
      Numbers("HEAPSIZE", Bytes("HEAPSIZE 10 , 20") \o NL, 10, 20),
      Numbers("HEAPSIZE", Bytes("HEAPSIZE 10") \o NL, 10, 0),
      Numbers("STACKSIZE", Bytes("STACKSIZE 7, 3") \o NL, 7, 3),
      Numbers("STACKSIZE", Bytes("STACKSIZE 7 ,3") \o NL, 7, 3),
      Numbers("STACKSIZE", Bytes("STACKSIZE 5") \o NL, 5, 0) }

\* One export with an ordinal, attached (`foo @10`) or apart (`foo @ 10`),
\* with NONAME behind it or not.
Ordinal(text, ordinal, noname) == [text |-> text, ordinal |-> ordinal, noname |-> noname]

OrdinalCases ==
    { Ordinal(Bytes("EXPORTS foo @10") \o NL, 10, FALSE),
      Ordinal(Bytes("EXPORTS foo @ 10") \o NL, 10, FALSE),
      Ordinal(Bytes("EXPORTS foo @10 NONAME") \o NL, 10, TRUE),
      Ordinal(Bytes("EXPORTS foo @ 10 NONAME") \o NL, 10, TRUE),
      Ordinal(Bytes("EXPORTS foo @ 65535 DATA") \o NL, 65535, FALSE) }

\* `@12x` is no ordinal: it is the next export.
NotAnOrdinalText == Bytes("EXPORTS foo @12x DATA") \o NL

Texts ==
    {CaseText(c) : c \in ExportCases} \cup CommentTexts \cup NulTexts \cup OtherTexts
        \cup DelimiterTexts \cup {c.text : c \in NumbersCases}
        \cup {c.text : c \in OrdinalCases} \cup {NotAnOrdinalText}

InitParse ==
    /\ pc = "parsing"
    /\ machine \in AllMachines
    /\ flavor \in Flavors
    /\ \E text \in Texts : parser = ParserNew(text, machine)
    /\ def = ModuleDefDefault
    /\ args = NoArgs
    /\ ar = NoBuilder
    /\ calls = <<>>
    /\ out = NoOut
    /\ out2 = NoOut

\* What Parser::parse has come to after a parse_one.
ParsePc(p) ==
    CASE p.status = "running" -> "parsing"
      [] p.status = "eof" -> "parsed"
      [] OTHER -> "failed"

\* Parser::parse, one turn of its loop; at the end the ModuleDef is returned.
ParseOne ==
    /\ pc = "parsing"
    /\ \E p \in {parse_one(parser)} :
         /\ parser' = p
         /\ pc' = ParsePc(p)
         /\ def' = IF p.status = "eof" THEN p.def ELSE def
    /\ UNCHANGED <<args, ar, calls, machine, flavor, out, out2>>

NextParse == ParseOne \/ FacadeNew \/ RunWriteTo

SpecParse == InitParse /\ [][NextParse]_vars

\* Parser::parse is a loop without a yield: a parse_one that can be called is
\* called.  This is weak fairness of ParseOne, which is enabled exactly while
\* pc = "parsing" (parse_one is total and changes the parser), written with
\* that enabling condition in place of ENABLED.
SpecParseLive ==
    /\ InitParse
    /\ [][NextParse]_vars
    /\ ([]<>(pc # "parsing") \/ []<><<ParseOne>>_vars)

----------------------------------------------------------------------------
(* Vocabulary of the properties                                            *)

\* The symbol index of an archive: after the global header and the 60-byte
\* header of `/` comes the 4-byte count, then one 4-byte slot per symbol.
IndexSlotsStart == Len(GLOBAL_HEADER) + 60 + 4

\* The 4 bytes of the j-th slot (j from 1) of the index in `buf`.
IndexSlot(buf, j) ==
    SubSeq(buf, IndexSlotsStart + 4 * (j - 1) + 1, IndexSlotsStart + 4 * j)

\* How many symbols the groups before group g hold.
SymbolsBefore(groups, g) == SumLen([h \in 1..(g - 1) |-> groups[h]])

EndsWith(s, suffix) ==
    Len(s) >= Len(suffix) /\ SubSeq(s, Len(s) - Len(suffix) + 1, Len(s)) = suffix

\* The bytes `t` stand in `s` at zero-based position n.
StandsAt(s, n, t) == n + Len(t) <= Len(s) /\ SubSeq(s, n + 1, n + Len(t)) = t

\* The 60 bytes at offset `at` of `buf` are a member header: they end with
\* the terminator.
HeaderAt(buf, at) ==
    StandsAt(buf, at + 58, <<96>> \o NL)

----------------------------------------------------------------------------
(* Properties of the archive writer, under SpecAr                          *)

\* The client gave one symbol group per promised member.
OneGroupPerMember == Len(args.symbol_table) = Len(args.identifiers)

\* The client appended every promised member, in the promised order, each
\* with as many bytes as its header declares.
AppendedAsPromised ==
    /\ pc = "ar_append"
    /\ Len(calls) = Len(args.identifiers)
    /\ \A i \in 1..Len(calls) :
         /\ calls[i].result = "Ok"
         /\ calls[i].header.identifier = args.identifiers[i]
         /\ calls[i].data_len = calls[i].header.size

\* C1: with one symbol group per member and every member appended in the
\* promised order, every slot of the symbol index holds the big-endian u32
\* offset at which the header of the member owning the symbol starts, and no
\* slot holds the sentinel any more.
C1_SlotsHoldOwnerOffsets ==
    (OneGroupPerMember /\ AppendedAsPromised) =>
        \A g \in 1..Len(args.symbol_table) :
            \A k \in 1..Len(args.symbol_table[g]) :
                LET slot == IndexSlot(ar.writer.buf, SymbolsBefore(args.symbol_table, g) + k)
                IN  /\ slot = U32BE(calls[g].at)
                    /\ slot # SentinelBytes
                    /\ HeaderAt(ar.writer.buf, calls[g].at)

\* C1, its case: two members, a long and a short name, two symbols each, both
\* appended.
C1_Witness ==
    /\ OneGroupPerMember
    /\ AppendedAsPromised
    /\ args.identifiers = <<LongId2, ShortId>>
    /\ args.symbol_table = <<TwoSymbols, TwoSymbols>>
    /\ IndexSlot(ar.writer.buf, 3) = U32BE(calls[2].at)

\* The `//` payload as written: the bytes of the stream from name_table_at.
NameTableWritten == SubSeq(ar.writer.buf, ar.name_table_at + 1,
                           ar.name_table_at + ar.name_table_len)

\* The header written at `at` refers to position n of the name table.
RefersTo(at, n) ==
    StandsAt(ar.writer.buf, at, PadLeftAligned(Bytes("/") \o Dec(n), 16))

\* C3: for every identifier list, lists repeating a long identifier included,
\* the `/<N>` in the header of a member with a long identifier is the position
\* in the written `//` payload at which that identifier starts, followed there
\* by `/\n`.
C3_LongNameReferenceValid ==
    \A i \in 1..Len(calls) :
        (calls[i].result = "Ok" /\ Len(calls[i].header.identifier) > 15) =>
            \E n \in 0..Len(NameTableWritten) :
                /\ RefersTo(calls[i].at, n)
                /\ StandsAt(NameTableWritten, n,
                            calls[i].header.identifier \o Bytes("/") \o NL)

----------------------------------------------------------------------------
(* Properties of the generator, under Spec                                 *)

\* The first run of write_to has ended.
Written == pc \in {"written", "done"}

Completed(fl) == Written /\ flavor = fl /\ out.status = "ok"

\* The symbol groups of the members of the first run, one group per member.
MemberSymbols == [i \in 1..Len(out.members) |-> out.members[i].symbols]

\* C2: in an archive written by the MSVC flavor, every symbol of the index is
\* associated with the offset of the header of the member whose symbols hold
\* it: the index lists the symbols of the members in member order, and the
\* slot of each holds the offset at which its member's header starts.
C2_MsvcIndexPointsAtOwners ==
    Completed("msvc") =>
        /\ StandsAt(out.archive, IndexSlotsStart - 4, U32BE(SumLen(MemberSymbols)))
        /\ StandsAt(out.archive, IndexSlotsStart + 4 * SumLen(MemberSymbols),
                    SymbolNames(Flatten(MemberSymbols)))
        /\ \A i \in 1..Len(out.members) :
              \A k \in 1..Len(out.members[i].symbols) :
                  /\ HeaderAt(out.archive, out.ats[i])
                  /\ IndexSlot(out.archive, SymbolsBefore(MemberSymbols, i) + k)
                        = U32BE(out.ats[i])

\* C4: two runs of the generator on the same module definition, machine and
\* flavor end alike and write the same bytes, whatever the iteration order of
\* the long names and whatever mtime, uid and gid the member headers carry.
C4_Deterministic ==
    pc = "done" => (out.status = out2.status /\ out.archive = out2.archive)

\* C4, its case: both runs of the GNU flavor completed on an input whose
\* members have four long names, so that the name table can be iterated in
\* several orders.
C4_Witness ==
    /\ pc = "done"
    /\ flavor = "gnu"
    /\ out.status = "ok"
    /\ out2.status = "ok"
    /\ Cardinality(BuiltLongKeys(out)) = 4
    /\ Len(out.archive) > 0

IsPublic(export) == ~export.private

\* The name write_to selects for an export.
SelectedName(export) ==
    IF export.symbol_name = <<>> THEN export.name ELSE export.symbol_name

HasDistinctAlias(export) ==
    export.alias_target # <<>> /\ export.alias_target # SelectedName(export)

IsPublicWithAlias(export) == IsPublic(export) /\ HasDistinctAlias(export)

\* C5: for every module definition given to the MSVC flavor, the number of
\* members appended is 3 + N + 2*W, N the exports that are not private and W
\* those among them whose alias_target is set and differs from the selected
\* name.
C5_MsvcMemberCount ==
    (Written /\ flavor = "msvc") =>
        Len(out.ats) = 3 + Len(SelectSeq(def.exports, IsPublic))
                         + 2 * Len(SelectSeq(def.exports, IsPublicWithAlias))

RECURSIVE ExpectedExportKinds(_)
\* The kinds (and imp flags) the exports are expected to contribute, in order.
ExpectedExportKinds(exports) ==
    IF exports = <<>> THEN <<>>
    ELSE (IF ~IsPublic(Head(exports)) THEN <<>>
          ELSE (IF HasDistinctAlias(Head(exports))
                THEN << <<"weak_external", FALSE>>, <<"weak_external", TRUE>> >>
                ELSE <<>>)
               \o << <<"short_import", FALSE>> >>)
         \o ExpectedExportKinds(Tail(exports))

ExpectedMsvcKinds ==
    << <<"import_descriptor", FALSE>>, <<"null_import_descriptor", FALSE>>,
       <<"null_thunk", FALSE>> >> \o ExpectedExportKinds(def.exports)

\* Each member was appended after the one before it.
AppendedInMemberOrder ==
    /\ Len(out.ats) = Len(out.members)
    /\ \A i \in 1..(Len(out.ats) - 1) : out.ats[i] < out.ats[i + 1]

\* C6: the MSVC flavor appends the import descriptor, the null import
\* descriptor, the null thunk, then for each export that is not private, in
\* DEF order, its members: for an export with a distinct alias the weak
\* external with imp = false, the one with imp = true, and then the short
\* import.
C6_MsvcMemberOrder ==
    Completed("msvc") =>
        /\ AppendedInMemberOrder
        /\ [i \in 1..Len(out.members) |-> <<out.members[i].kind, out.members[i].imp>>]
              = ExpectedMsvcKinds

\* C6, its case: a completed run with an aliased export followed by another
\* export.
C6_Witness ==
    /\ Completed("msvc")
    /\ Len(def.exports) = 2
    /\ def.exports[1].name = Bytes("alpha")
    /\ def.exports[2].name = Bytes("bar")
    /\ Len(out.members) = 7
    /\ out.members[4].kind = "weak_external"
    /\ out.members[6].kind = "short_import"

\* The input `EXPORTS\n alpha == beta\n` on AMD64, or the same exports with a
\* name shorter than 4 bytes.
IsAlphaBetaWithoutLibrary ==
    /\ machine = "AMD64"
    /\ flavor = "msvc"
    /\ Len(def.import_name) < 4
    /\ Len(def.exports) = 1
    /\ def.exports[1].name = Bytes("alpha")
    /\ def.exports[1].alias_target = Bytes("beta")

\* C7: the MSVC flavor runs to completion when import_name is empty or shorter
\* than 4 bytes: for `alpha == beta` on AMD64 it writes the three fixed
\* members, the two weak externals and the short import.
C7_MsvcCompletesWithoutLibrary ==
    (Written /\ IsAlphaBetaWithoutLibrary) =>
        /\ out.status = "ok"
        /\ [i \in 1..Len(out.members) |-> out.members[i].kind]
              = <<"import_descriptor", "null_import_descriptor", "null_thunk",
                  "weak_external", "weak_external", "short_import">>

IsShortImport(member) == member.kind = "short_import"

\* C8: every short import exposes `__imp_<sym>`, and `<sym>` as well exactly
\* when the export's data flag is not set.
C8_ShortImportSymbols ==
    Completed("msvc") =>
        LET shorts == SelectSeq(out.members, IsShortImport)
            exports == SelectSeq(def.exports, IsPublic)
        IN  /\ Len(shorts) = Len(exports)
            /\ \A i \in 1..Len(shorts) :
                  LET sym == SelectedName(exports[i])
                  IN  /\ Range(shorts[i].symbols) \subseteq {Bytes("__imp_") \o sym, sym}
                      /\ Bytes("__imp_") \o sym \in Range(shorts[i].symbols)
                      /\ (sym \in Range(shorts[i].symbols)) <=> ~exports[i].data

\* C8, its case: short imports of a DATA CONSTANT export and of a CONSTANT
\* export.
C8_Witness ==
    /\ Completed("msvc")
    /\ Len(def.exports) = 2
    /\ def.exports[1].data /\ def.exports[1].constant
    /\ ~def.exports[2].data /\ def.exports[2].constant
    /\ Len(out.members[4].symbols) = 1
    /\ Len(out.members[5].symbols) = 2

IsHead(member) == EndsWith(member.name, Bytes("_h.o"))
IsTail(member) == EndsWith(member.name, Bytes("_t.o"))
IsStub(member) == member.kind = "stub"

\* C9: a successful run of the GNU flavor appends N + 2 members, N the number
\* of exports, the private ones included: one stub per export, one head and
\* one tail.
C9_GnuMemberCount ==
    Completed("gnu") =>
        /\ Len(out.ats) = Len(def.exports) + 2
        /\ Len(out.members) = Len(out.ats)
        /\ Len(SelectSeq(out.members, IsStub)) = Len(def.exports)
        /\ Len(SelectSeq(out.members, IsHead)) = 1
        /\ Len(SelectSeq(out.members, IsTail)) = 1

\* C9, its case: a successful run with two exports, one of them private.
C9_Witness ==
    /\ Completed("gnu")
    /\ Len(def.exports) = 2
    /\ def.exports[1].private
    /\ Len(out.ats) = 4

\* C10 as stated: in the archive the head precedes every stub and the tail
\* follows every stub.
C10_HeadFirstTailLast ==
    Completed("gnu") =>
        /\ AppendedInMemberOrder
        /\ \A h, x \in 1..Len(out.members) :
              /\ (IsHead(out.members[h]) /\ IsStub(out.members[x])) => h < x
              /\ (IsTail(out.members[h]) /\ IsStub(out.members[x])) => x < h

\* C10: in an archive written by the GNU flavor the tail member comes
\* first, the head member second, and every stub member after them: the head
\* precedes every stub, and the tail precedes the head and every stub.
C10_TailThenHeadThenStubs ==
    Completed("gnu") =>
        /\ AppendedInMemberOrder
        /\ Len(out.members) >= 2
        /\ IsTail(out.members[1]) /\ ~IsHead(out.members[1]) /\ ~IsStub(out.members[1])
        /\ IsHead(out.members[2]) /\ ~IsTail(out.members[2]) /\ ~IsStub(out.members[2])
        /\ \A i \in 3..Len(out.members) :
              IsStub(out.members[i]) /\ ~IsHead(out.members[i]) /\ ~IsTail(out.members[i])

\* C10, its case: two exports, so two stubs, both after the tail and the head.
C10_Witness ==
    /\ Completed("gnu")
    /\ Len(def.exports) = 2
    /\ IsTail(out.members[1])
    /\ IsHead(out.members[2])
    /\ IsStub(out.members[3])
    /\ IsStub(out.members[4])
    /\ out.ats[1] < out.ats[3]

\* The members of the first run that carry the name `name`.
MembersNamed(name) == {k \in 1..Len(out.members) : out.members[k].name = name}

\* The stub of the i-th export (counted from 1) is the one member named
\* <prefix>_s<NNNNN>.o with NNNNN = i - 1, and it exposes `__imp_<name>` of
\* that export.
StubsNumbered(prefix) ==
    \A i \in 1..Len(def.exports) :
        LET named == MembersNamed(prefix \o Bytes("_s") \o Dec05(i - 1) \o Bytes(".o"))
        IN  /\ Cardinality(named) = 1
            /\ \A k \in named :
                  /\ IsStub(out.members[k])
                  /\ Len(Dec05(i - 1)) = 5
                  /\ Bytes("__imp_") \o def.exports[i].name \in Range(out.members[k].symbols)

\* Head, tail and stubs are named after `prefix`.
MembersNamedAfter(prefix) ==
    /\ Cardinality(MembersNamed(prefix \o Bytes("_h.o"))) = 1
    /\ Cardinality(MembersNamed(prefix \o Bytes("_t.o"))) = 1
    /\ \A k \in MembersNamed(prefix \o Bytes("_h.o")) : out.members[k].kind = "head"
    /\ \A k \in MembersNamed(prefix \o Bytes("_t.o")) : out.members[k].kind = "tail"
    /\ StubsNumbered(prefix)
    /\ Len(out.members) = Len(def.exports) + 2

\* C11 as stated: the members of the GNU flavor are named M_h.o, M_t.o and
\* M_s<NNNNN>.o, M the import name with every `.` replaced by `_`.
C11_NamedAfterImportName ==
    Completed("gnu") => MembersNamedAfter(ReplaceDots(def.import_name))

\* C11: the members of the GNU flavor are named M_h.o, M_t.o and
\* M_s<NNNNN>.o, M the output name (the import name followed by `.a`) with
\* every `.` replaced by `_`; NNNNN is the five-digit index of the export in DEF
\* order from 0, so no two stubs share a name.
C11_NamedAfterOutputName ==
    Completed("gnu") =>
        /\ MembersNamedAfter(ReplaceDots(def.import_name \o Bytes(".a")))
        /\ \A i, j \in 1..Len(out.members) :
              (i # j /\ IsStub(out.members[i]) /\ IsStub(out.members[j]))
                  => out.members[i].name # out.members[j].name

\* C11, its case: `foo.dll` with two exports gives foo_dll_a_t.o,
\* foo_dll_a_h.o, foo_dll_a_s00001.o and foo_dll_a_s00000.o.
C11_Witness ==
    /\ Completed("gnu")
    /\ def.import_name = Bytes("foo.dll")
    /\ Len(def.exports) = 2
    /\ Names(out.members) = << Bytes("foo_dll_a_t.o"), Bytes("foo_dll_a_h.o"),
                               Bytes("foo_dll_a_s00001.o"), Bytes("foo_dll_a_s00000.o") >>

----------------------------------------------------------------------------
(* Properties of the generator fed by the parser, under SpecParse          *)

\* The name of the stub of the i-th export (counted from 1).
StubName(i) ==
    ReplaceDots(def.import_name \o Bytes(".a")) \o Bytes("_s") \o Dec05(i - 1) \o Bytes(".o")

\* The jump template, the offset of its relocation and the REL32 kind the
\* machine is to get.
ExpectedJump ==
    IF machine \in {"I386", "AMD64"} THEN <<255, 37, 0, 0, 0, 0, 144, 144>>
    ELSE <<0, 192, 159, 229, 0, 240, 156, 229, 0, 0, 0, 0>>

ExpectedJumpOffset == IF machine \in {"I386", "AMD64"} THEN 2 ELSE 8

ExpectedRel32 ==
    CASE machine = "I386" -> "IMAGE_REL_I386_REL32"
      [] machine = "AMD64" -> "IMAGE_REL_AMD64_REL32"
      [] machine = "ARMNT" -> "IMAGE_REL_ARM_REL32"
      [] machine = "ARM64" -> "IMAGE_REL_ARM64_REL32"

\* `.text` of a stub holds the jump template with its one relocation against
\* `__imp_<name>`.
TextJumps(member, name) ==
    /\ member.obj.sections[1].name = ".text"
    /\ member.obj.sections[1].data = ExpectedJump
    /\ Len(ExpectedJump) = (IF machine \in {"I386", "AMD64"} THEN 8 ELSE 12)
    /\ member.obj.sections[1].relocs
          = << [offset |-> ExpectedJumpOffset, symbol |-> Bytes("__imp_") \o name,
                kind |-> ExpectedRel32] >>

TextEmpty(member) ==
    /\ member.obj.sections[1].name = ".text"
    /\ member.obj.sections[1].data = <<>>
    /\ member.obj.sections[1].relocs = <<>>

\* C12 as stated: the `.text` of every stub, that of a DATA export included,
\* holds the jump template and its relocation.
C12_EveryStubJumps ==
    Completed("gnu") =>
        \A i \in 1..Len(def.exports) :
            /\ Cardinality(MembersNamed(StubName(i))) = 1
            /\ \A k \in MembersNamed(StubName(i)) :
                  TextJumps(out.members[k], def.exports[i].name)

\* C12: in the stub of every export whose data flag is not set, on every
\* machine, `.text` holds the jump template (8 bytes on I386/AMD64, 12 on
\* ARMNT/ARM64) and one REL32 relocation against `__imp_<export>` at offset 2
\* (I386/AMD64) or 8 (ARMNT/ARM64); in the stub of a DATA export `.text` is
\* empty and has no relocation.
C12_CodeStubsJump ==
    Completed("gnu") =>
        \A i \in 1..Len(def.exports) :
            /\ Cardinality(MembersNamed(StubName(i))) = 1
            /\ \A k \in MembersNamed(StubName(i)) :
                  IF def.exports[i].data THEN TextEmpty(out.members[k])
                  ELSE TextJumps(out.members[k], def.exports[i].name)

\* C12, its case: `A` and `B DATA` on ARM64: the stub of A jumps through the
\* 12-byte template, the stub of B has an empty `.text`.
C12_Witness ==
    /\ Completed("gnu")
    /\ machine = "ARM64"
    /\ Len(def.exports) = 2
    /\ ~def.exports[1].data /\ def.exports[2].data
    /\ Len(out.members[4].obj.sections[1].data) = 12
    /\ out.members[4].obj.sections[1].relocs[1].offset = 8
    /\ out.members[3].obj.sections[1].data = <<>>

\* The names the index of the archive lists are those of the members' symbol
\* groups, in member order.
IndexListsMemberSymbols ==
    /\ StandsAt(out.archive, IndexSlotsStart - 4, U32BE(SumLen(MemberSymbols)))
    /\ StandsAt(out.archive, IndexSlotsStart + 4 * SumLen(MemberSymbols),
                SymbolNames(Flatten(MemberSymbols)))

\* Each stub exposes `<name>` then `__imp_<name>`, or `__imp_<name>` alone for
\* a DATA export.
StubsExpose ==
    \A i \in 1..Len(def.exports) :
        /\ Cardinality(MembersNamed(StubName(i))) = 1
        /\ \A k \in MembersNamed(StubName(i)) :
              out.members[k].symbols
                  = (IF def.exports[i].data THEN <<>> ELSE <<def.exports[i].name>>)
                      \o <<Bytes("__imp_") \o def.exports[i].name>>

\* The head exposes `<prefix>_head_<M>` alone and the tail `<prefix><M>_iname`
\* alone, M the import name with its dots replaced.
HeadAndTailExpose(prefix) ==
    /\ \E k \in 1..Len(out.members) : IsHead(out.members[k])
    /\ \E k \in 1..Len(out.members) : IsTail(out.members[k])
    /\ \A k \in 1..Len(out.members) :
          /\ IsHead(out.members[k]) =>
                out.members[k].symbols
                    = <<prefix \o Bytes("_head_") \o ReplaceDots(def.import_name)>>
          /\ IsTail(out.members[k]) =>
                out.members[k].symbols
                    = <<prefix \o ReplaceDots(def.import_name) \o Bytes("_iname")>>

\* C13 as stated: the stubs expose `<name>` and `__imp_<name>` (the latter
\* alone for DATA), the head only `_head_<M>` and the tail only `<M>_iname`.
C13_SymbolsExposed ==
    Completed("gnu") =>
        /\ IndexListsMemberSymbols
        /\ StubsExpose
        /\ HeadAndTailExpose(<<>>)

\* C13: the stubs expose `<name>` followed by `__imp_<name>`, and
\* `__imp_<name>` alone for DATA; the head exposes only `_head_<M>` and the
\* tail only `<M>_iname`, each with one more leading `_` on I386.
C13_SymbolsExposedMangled ==
    Completed("gnu") =>
        /\ IndexListsMemberSymbols
        /\ StubsExpose
        /\ HeadAndTailExpose(IF machine = "I386" THEN Bytes("_") ELSE <<>>)

\* C13, its case: `LIBRARY p.dll` with `A` and `B DATA` on I386: the tail
\* exposes `_p_dll_iname`, the head `__head_p_dll`, the stub of B `__imp__B`
\* and the stub of A `_A` and `__imp__A`.
C13_Witness ==
    /\ Completed("gnu")
    /\ machine = "I386"
    /\ def.import_name = Bytes("p.dll")
    /\ Len(out.members) = 4
    /\ MemberSymbols = << <<Bytes("_p_dll_iname")>>, <<Bytes("__head_p_dll")>>,
                          <<Bytes("__imp__B")>>, <<Bytes("_A"), Bytes("__imp__A")>> >>

\* Parser::parse has returned.
ParseEnded == parser.status # "running"

\* The parse that ended in `p` came to what the parse `q` came to: both
\* returned the same ModuleDef, or both failed alike.
SameOutcome(p, q) ==
    /\ p.status = q.status
    /\ p.error = q.error
    /\ p.status = "eof" => p.def = q.def

\* C14: parsing ` ; <anything>\n <directive>` gives what parsing `<directive>`
\* alone gives, whatever the comment holds.
C14_CommentHasNoEffect ==
    \A anything \in CommentBodies, directive \in Directives :
        (ParseEnded /\ parser.text = Commented(anything, directive))
            => SameOutcome(parser, Parse(directive, machine))

\* A name is decorated when it starts with `@` or `?` or holds an `@`.
Decorated(name) ==
    \/ (name # <<>> /\ name[1] \in {64, 63})
    \/ \E i \in 1..Len(name) : name[i] = 64

\* The name the parser is to give for the written name `raw`: on I386 an
\* undecorated name gets one `_` in front, every other name stays.
ExpectedName(raw) ==
    IF machine = "I386" /\ ~Decorated(raw) THEN <<95>> \o raw ELSE raw

\* The ShortExport `export` is that of the written entry `e`: for `A = B` the
\* name is B and ext_name A, and each flag is set exactly when its word
\* follows the entry.
ExportOfEntry(export, e) ==
    /\ export.name = ExpectedName(IF e.rename.some THEN e.rename.v ELSE e.name)
    /\ export.ext_name = (IF e.rename.some THEN Some(ExpectedName(e.name)) ELSE None)
    /\ export.ordinal = e.ordinal
    /\ export.no_name = e.noname
    /\ export.data = ("DATA" \in Range(e.words))
    /\ export.constant = ("CONSTANT" \in Range(e.words))
    /\ export.private = ("PRIVATE" \in Range(e.words))

\* The parse ended well with one ShortExport per entry of the case, in order.
ParsedAsWritten(c) ==
    /\ parser.status = "eof"
    /\ Len(parser.def.exports) = Len(c.entries)
    /\ \A i \in 1..Len(parser.def.exports) :
          i <= Len(c.entries) => ExportOfEntry(parser.def.exports[i], c.entries[i])

\* C15: parsing an EXPORTS block yields one ShortExport per entry, in source
\* order, and DATA, CONSTANT and PRIVATE set their flag only on the export
\* they follow.
C15_OneExportPerEntry ==
    \A c \in ExportCases :
        (ParseEnded /\ parser.text = CaseText(c)) => ParsedAsWritten(c)

\* The name `parsed` is what the parser is to make of the written name `raw`.
NameAsRuled(parsed, raw) ==
    /\ (machine = "I386" /\ ~Decorated(raw)) => parsed = <<95>> \o raw
    /\ (machine = "I386" /\ Decorated(raw)) => parsed = raw
    /\ machine # "I386" => parsed = raw

\* C16: under I386 every parsed export name, and ext_name when present, that
\* does not start with `@` or `?` and holds no `@` gets exactly one `_` in
\* front and every other name is left as written; under any other machine the
\* parser leaves every name as written.
C16_I386Underscore ==
    \A c \in ExportCases :
        (ParseEnded /\ parser.text = CaseText(c)) =>
            /\ parser.status = "eof"
            /\ Len(parser.def.exports) <= Len(c.entries)
            /\ \A i \in 1..Len(parser.def.exports) :
                  i <= Len(c.entries) =>
                     IF c.entries[i].rename.some
                     THEN /\ NameAsRuled(parser.def.exports[i].name, c.entries[i].rename.v)
                          /\ parser.def.exports[i].ext_name.some
                          /\ NameAsRuled(parser.def.exports[i].ext_name.v, c.entries[i].name)
                     ELSE /\ NameAsRuled(parser.def.exports[i].name, c.entries[i].name)
                          /\ ~parser.def.exports[i].ext_name.some

\* C16, its case: `foo` and `@bar` parsed under I386 give `_foo` and `@bar`.
C16_Witness ==
    /\ ParseEnded
    /\ machine = "I386"
    /\ parser.status = "eof"
    /\ Len(parser.def.exports) = 2
    /\ parser.def.exports[1].name = Bytes("_foo")
    /\ parser.def.exports[2].name = Bytes("@bar")

\* The two outcomes of Parser::parse: a ModuleDef, or an error of kind
\* InvalidInput.
IsParseOutcome(p) ==
    \/ p.status = "eof" /\ p.error = "none"
    \/ p.status = "err" /\ p.error = "InvalidInput"

\* C17: for every text and machine Parser::parse ends by returning a ModuleDef
\* or an error of kind InvalidInput: no parse_one panics or fails otherwise,
\* and the whole parse of the text comes to one of the two outcomes.
C17_ParseOutcomes ==
    /\ parser.status \in {"running", "eof", "err"}
    /\ ParseEnded => IsParseOutcome(parser)
    /\ IsParseOutcome(Parse(parser.text, machine))
    /\ ParseEnded => SameOutcome(parser, Parse(parser.text, machine))

\* C17, its case: ` \x0BEXPORTS D \x0B===` ends in an InvalidInput error, the
\* token after `==` having no value.
C17_Witness ==
    /\ ParseEnded
    /\ parser.text = Bytes(" ") \o <<11>> \o Bytes("EXPORTS D ") \o <<11>> \o Bytes("===")
    /\ parser.status = "err"
    /\ parser.error = "InvalidInput"

\* The module definition handed to the generator names the DLL, or an export,
\* with a NUL inside.
NulInNames(d) ==
    \/ HasNul(d.import_name)
    \/ \E i \in 1..Len(d.exports) : HasNul(d.exports[i].name)

\* C18: when the import name or the name of an export holds a NUL, the run of
\* write_to of either flavor ends by returning an error: it neither writes an
\* archive nor panics.
C18_NulGivesInvalidInput ==
    (Written /\ NulInNames(def)) => out.status = "err"

\* The facade constructor has run.
Constructed == pc \in {"ready", "written", "done"}

\* The export makes the loop of the MSVC write_to take its unimplemented
\* `ext_name` branch.
ReachesTodo(export) ==
    \E k \in DOMAIN ExportMembers([machine |-> machine, import_name |-> def.import_name],
                                  export) :
        ExportMembers([machine |-> machine, import_name |-> def.import_name],
                      export)[k].kind = "todo"

\* The exports the facade holds are named as the entries of `c` were first
\* written (A for `A = B`), with the `_` of I386 on an undecorated name.
NamedAsFirstWritten(c) ==
    Len(def.exports) = Len(c.entries) =>
        \A i \in 1..Len(c.entries) : def.exports[i].name = ExpectedName(c.entries[i].name)

\* C19: once the facade constructor has run, every export has ext_name empty;
\* the export of an entry written `A = B` is named A (with `_` in front on
\* I386 when A is undecorated) and B is gone; and no export makes the MSVC
\* write_to take its unimplemented ext_name branch.
C19_ExtNameEmptyAfterFacade ==
    Constructed =>
        /\ Len(def.exports) = Len(parser.def.exports)
        /\ \A i \in 1..Len(def.exports) :
              /\ ~def.exports[i].ext_name.some
              /\ ~ReachesTodo(def.exports[i])
              /\ parser.def.exports[i].ext_name.some =>
                    /\ def.exports[i].name = parser.def.exports[i].ext_name.v
                    /\ def.exports[i].name # parser.def.exports[i].name
        /\ \A c \in ExportCases : parser.text = CaseText(c) => NamedAsFirstWritten(c)

\* C19, its case: `A = B` under I386 was parsed into name `_B` and ext_name
\* `_A`, the facade holds the export `_A`, and the MSVC write_to completed.
C19_Witness ==
    /\ Written
    /\ flavor = "msvc"
    /\ machine = "I386"
    /\ out.status = "ok"
    /\ Len(parser.def.exports) = 1
    /\ parser.def.exports[1].name = Bytes("_B")
    /\ parser.def.exports[1].ext_name = Some(Bytes("_A"))
    /\ def.exports[1].name = Bytes("_A")
    /\ def.exports[1].ext_name = None

\* The little-endian u16 at byte offset `off` of `data`.
U16At(data, off) == data[off + 1] + 256 * data[off + 2]

\* ImportObjectHeader: ordinal_or_hint stands at offset 16 and name_type at
\* offset 18 of the member.
HeaderOrdinalOrHint(member) == U16At(member.data, 16)
HeaderNameType(member) == U16At(member.data, 18)

\* IMPORT_OBJECT_CODE, _DATA, _CONST for the export.
ExpectedImportType(export) ==
    IF export.data THEN 1 ELSE IF export.constant THEN 2 ELSE 0

\* IMPORT_OBJECT_ORDINAL, _NAME, _NAME_NO_PREFIX, _NAME_UNDECORATE for the
\* export: the external name is its name, the symbol its selected name.
ExpectedNameType(export) ==
    IF export.no_name THEN 0
    ELSE IF export.name # <<>> /\ export.name[1] = 95
            /\ (\E k \in 1..Len(export.name) : export.name[k] = 64) THEN 1
    ELSE IF SelectedName(export) # export.name THEN 3
    ELSE IF machine = "I386" /\ SelectedName(export) # <<>> /\ SelectedName(export)[1] = 95
    THEN 2
    ELSE 1

\* C20: in an archive written by the MSVC flavor, the short import of every
\* export that is not private carries the export's ordinal in ordinal_or_hint
\* and (T << 2) | I in name_type, I the import type of the export and T its
\* name type, chosen in the order: Ordinal for no_name, Name for a name with
\* `_` in front and `@` inside, NameUndecorate when symbol and name differ,
\* NameNoPrefix on I386 for a symbol with `_` in front, else Name.
C20_ShortImportHeader ==
    Completed("msvc") =>
        LET shorts == SelectSeq(out.members, IsShortImport)
            exports == SelectSeq(def.exports, IsPublic)
        IN  /\ Len(shorts) = Len(exports)
            /\ \A i \in 1..Len(exports) :
                  /\ HeaderOrdinalOrHint(shorts[i]) = exports[i].ordinal
                  /\ HeaderNameType(shorts[i])
                        = 4 * ExpectedNameType(exports[i]) + ExpectedImportType(exports[i])

\* C20, its case: `LIBRARY k.dll`, `x @ 7 NONAME` written by the MSVC flavor;
\* the header of the short import holds ordinal_or_hint 7, type Code and name
\* type Ordinal.
C20_Witness ==
    /\ Completed("msvc")
    /\ def.import_name = Bytes("k.dll")
    /\ Len(def.exports) = 1
    /\ def.exports[1].ordinal = 7
    /\ def.exports[1].no_name
    /\ Len(SelectSeq(out.members, IsShortImport)) = 1
    /\ HeaderOrdinalOrHint(SelectSeq(out.members, IsShortImport)[1]) = 7
    /\ HeaderNameType(SelectSeq(out.members, IsShortImport)[1]) = 0

\* The tokens Lexer::next yields from position `pos` of `text` up to Eof, each
\* with its kind and value.
RECURSIVE Lexed(_, _)
Lexed(text, pos) ==
    LET t == LexerNext(text, pos)
    IN  IF t.kind = "Eof" THEN <<>>
        ELSE <<[kind |-> t.kind, value |-> t.value]>> \o Lexed(text, t.pos)

\* C21: a word that `=`, `==`, `,` or `;` ends leaves that character to the
\* next token: the text with the character right behind the word lexes into
\* the same tokens as the text with whitespace between them, and parses into
\* the same result.
C21_DelimiterLeftToNextToken ==
    \A c \in DelimiterCases :
        parser.text = c.attached =>
            /\ Lexed(parser.text, 1) = Lexed(c.spaced, 1)
            /\ ParseEnded => SameOutcome(parser, Parse(c.spaced, machine))

\* The ModuleDef a text holding the one directive of `c` is to give: the
\* reserve and the commit of its heap or stack, every other field as
\* ModuleDef::default leaves it.
NumbersDef(c) ==
    IF c.directive = "HEAPSIZE"
    THEN [ModuleDefDefault EXCEPT !.heap_reserve = c.reserve, !.heap_commit = c.commit]
    ELSE [ModuleDefDefault EXCEPT !.stack_reserve = c.reserve, !.stack_commit = c.commit]

\* C22: parsing `HEAPSIZE r, c` or `HEAPSIZE r,c` succeeds with heap_reserve r
\* and heap_commit c, `HEAPSIZE r` with heap_reserve r and heap_commit 0,
\* STACKSIZE likewise for the stack, and no other field of the ModuleDef is
\* changed.
C22_NumbersStored ==
    \A c \in NumbersCases :
        (parser.text = c.text /\ ParseEnded) =>
            /\ parser.status = "eof"
            /\ parser.def = NumbersDef(c)

\* C23: an export followed by `@N` or by `@ N`, N a u16, is parsed with
\* ordinal N, and with no_name exactly when NONAME comes next; an attached
\* `@...` that is no u16 ends the export, its ordinal as it was, and is the
\* name of the next export.
C23_OrdinalForms ==
    ParseEnded =>
        /\ \A c \in OrdinalCases :
              parser.text = c.text =>
                  /\ parser.status = "eof"
                  /\ Len(parser.def.exports) = 1
                  /\ parser.def.exports[1].ordinal = c.ordinal
                  /\ parser.def.exports[1].no_name = c.noname
        /\ parser.text = NotAnOrdinalText =>
              /\ parser.status = "eof"
              /\ Len(parser.def.exports) = 2
              /\ parser.def.exports[1].ordinal = 0
              /\ ~parser.def.exports[1].data
              /\ parser.def.exports[2].name = Bytes("@12x")
              /\ parser.def.exports[2].data

----------------------------------------------------------------------------
(* Properties of append, under SpecAr                                      *)

\* The call passed the test of its identifier against the promised ones.
NameWasListed(call) == call.result # "ErrNotInList"

\* The zero-based offsets of the slots of symbol group g (from 1) as the
\* arguments of the constructor lay them out; none past the last group.
GroupSlots(g) ==
    IF g <= Len(args.symbol_table)
    THEN Range(SlotPositions(args.symbol_table, IndexSlotsStart)[g])
    ELSE {}

\* The one-based indices of the bytes of those slots.
GroupSlotBytes(g) == UNION {{p + 1, p + 2, p + 3, p + 4} : p \in GroupSlots(g)}

\* A step in which append was called with a listed identifier.
ListedAppendStep ==
    /\ pc = "ar_append"
    /\ Len(calls') = Len(calls) + 1
    /\ NameWasListed(calls'[Len(calls')])

\* What such a step does to the stream, k being the number of calls with a
\* listed identifier made before it: the slots of group k + 1 receive the
\* offset of the end of the stream, every other byte written before stays,
\* and the header of the member is written at that end.
AppendFrame ==
    LET k == Len(SelectSeq(calls, NameWasListed))
        end == Len(ar.writer.buf)
    IN  /\ ar.writer.pos = end
        /\ \A p \in GroupSlots(k + 1) : StandsAt(ar'.writer.buf, p, U32BE(end))
        /\ \A j \in (1..end) \ GroupSlotBytes(k + 1) : ar'.writer.buf[j] = ar.writer.buf[j]
        /\ Len(ar'.writer.buf) >= end + 60
        /\ HeaderAt(ar'.writer.buf, end)
        /\ StandsAt(ar'.writer.buf, end,
                    IF Len(calls'[Len(calls')].header.identifier) > 15 THEN Bytes("/")
                    ELSE calls'[Len(calls')].header.identifier \o Bytes("/"))

\* C24: the k-th call of append (from 0) overwrites exactly the slots of the
\* k-th symbol group, whatever identifier its header carries; every other
\* byte written before the call is unchanged after it, and the header of the
\* member starts at the previous end of the stream.
C24_AppendPatchesItsGroupOnly == [][ListedAppendStep => AppendFrame]_vars

\* C24, its case: `a.o` was promised second and appended first; the call
\* patched the slots of the first group with the offset of its header, and
\* the slots of the second group still hold the sentinel.
C24_Witness ==
    /\ args.identifiers = <<LongId2, ShortId>>
    /\ args.symbol_table = <<TwoSymbols, TwoSymbols>>
    /\ Len(calls) = 1
    /\ calls[1].header.identifier = ShortId
    /\ calls[1].result = "Ok"
    /\ IndexSlot(ar.writer.buf, 1) = U32BE(calls[1].at)
    /\ IndexSlot(ar.writer.buf, 2) = U32BE(calls[1].at)
    /\ IndexSlot(ar.writer.buf, 3) = SentinelBytes
    /\ HeaderAt(ar.writer.buf, calls[1].at)

\* A step in which append was called and refused the identifier.
RefusedAppendStep ==
    /\ pc = "ar_append"
    /\ Len(calls') = Len(calls) + 1
    /\ ~NameWasListed(calls'[Len(calls')])

\* A call of append was refused for its identifier before.
RefusedBefore == \E i \in 1..Len(calls) : ~NameWasListed(calls[i])

\* C25: append refuses exactly the identifiers that were not promised to the
\* constructor, and a refused call changes nothing: the stream, its position
\* and symbol_index are as before, so the next append of a promised member
\* patches the group it would have patched without the refused call.
C25_RefusedAppendChangesNothing ==
    [][/\ (pc = "ar_append" /\ Len(calls') = Len(calls) + 1) =>
            (NameWasListed(calls'[Len(calls')])
                <=> calls'[Len(calls')].header.identifier \in Range(args.identifiers))
       /\ RefusedAppendStep =>
            /\ ar'.writer = ar.writer
            /\ ar'.symbol_index = ar.symbol_index
            /\ ar' = ar
       /\ (ListedAppendStep /\ RefusedBefore) => AppendFrame]_vars

\* C25, its case: `zz.o`, which was not promised, was refused, and the append
\* of the first promised member after it patched the first group with the
\* offset the refused call had found.
C25_Witness ==
    /\ args.identifiers = <<LongId2, ShortId>>
    /\ args.symbol_table = <<TwoSymbols, TwoSymbols>>
    /\ Len(calls) = 2
    /\ calls[1].header.identifier = UndeclaredId
    /\ calls[1].result = "ErrNotInList"
    /\ calls[2].header.identifier = LongId2
    /\ calls[2].result = "Ok"
    /\ calls[2].at = calls[1].at
    /\ IndexSlot(ar.writer.buf, 1) = U32BE(calls[2].at)
    /\ IndexSlot(ar.writer.buf, 3) = SentinelBytes

\* Where the stream ended after the i-th call: where the next call found it,
\* or where it ends now.
EndAfter(i) == IF i < Len(calls) THEN calls[i + 1].at ELSE Len(ar.writer.buf)

\* The size field of the member header at `at` holds n: the ten bytes at
\* offset 48 of the header are the decimal digits of n, padded with spaces.
SizeFieldAt(at, n) == StandsAt(ar.writer.buf, at + 48, PadLeftAligned(Dec(n), 10))

\* C26: the header of every member appended successfully declares the number
\* of data bytes written behind it; one `\n` follows the data when that
\* number is odd and nothing when it is even; and append fails when the
\* reader yields a number of bytes other than header.size.
C26_SizeAndPadding ==
    \A i \in 1..Len(calls) :
        /\ (NameWasListed(calls[i]) /\ calls[i].data_len # calls[i].header.size)
              => calls[i].result = "ErrWrongSize"
        /\ calls[i].result = "Ok" =>
              /\ calls[i].data_len = calls[i].header.size
              /\ SizeFieldAt(calls[i].at, calls[i].data_len)
              /\ StandsAt(ar.writer.buf, calls[i].at + 60, MemberData(calls[i].data_len))
              /\ IF calls[i].data_len % 2 = 1
                 THEN /\ StandsAt(ar.writer.buf, calls[i].at + 60 + calls[i].data_len, NL)
                      /\ EndAfter(i) = calls[i].at + 60 + calls[i].data_len + 1
                 ELSE EndAfter(i) = calls[i].at + 60 + calls[i].data_len

\* C26, its case: a member of 3 bytes and then a member of 2 bytes were
\* appended; the header of the second starts 64 bytes behind the start of the
\* header of the first, behind the `\n` that pads the first.
C26_Witness ==
    /\ Len(calls) = 2
    /\ calls[1].result = "Ok"
    /\ calls[1].data_len = 3
    /\ calls[2].result = "Ok"
    /\ calls[2].data_len = 2
    /\ calls[2].at = calls[1].at + 64
    /\ StandsAt(ar.writer.buf, calls[1].at + 63, NL)
    /\ SizeFieldAt(calls[1].at, 3)
    /\ Len(ar.writer.buf) = calls[2].at + 62

\* Where the stream ended when new_with_symbol_table returned: where the
\* first append found it, or where it ends now.
ConstructedEnd == IF calls = <<>> THEN Len(ar.writer.buf) ELSE calls[1].at

\* Where the payload of the `/` member ends: at the header of `//` when
\* there is one, else where the constructor left the stream.
SymbolTableEnd ==
    IF LongKeys(args.identifiers) # {} THEN ar.name_table_at - 60 ELSE ConstructedEnd

\* The `/` member declares the bytes written for it.
SymbolTableSizeDeclared ==
    IF args.symbol_table = <<>> THEN SymbolTableEnd = Len(GLOBAL_HEADER)
    ELSE /\ StandsAt(ar.writer.buf, Len(GLOBAL_HEADER),
                     PadLeftAligned(GNU_SYMBOL_LOOKUP_TABLE_ID, 16))
         /\ HeaderAt(ar.writer.buf, Len(GLOBAL_HEADER))
         /\ SizeFieldAt(Len(GLOBAL_HEADER), SymbolTableEnd - (Len(GLOBAL_HEADER) + 60))
         /\ SymbolTableEnd % 2 = 0

\* The `//` member declares the bytes written for it.
NameTableSizeDeclared ==
    LongKeys(args.identifiers) # {} =>
        /\ StandsAt(ar.writer.buf, ar.name_table_at - 60,
                    PadLeftAligned(GNU_NAME_TABLE_ID, 48))
        /\ HeaderAt(ar.writer.buf, ar.name_table_at - 60)
        /\ SizeFieldAt(ar.name_table_at - 60, ConstructedEnd - ar.name_table_at)
        /\ ConstructedEnd % 2 = 0

\* C27: for every input of new_with_symbol_table, a list repeating a long
\* identifier included, the headers of `/` and of `//` declare the number of
\* payload bytes written for the member, its padding included, so that the
\* header after it starts at an even offset, right behind the declared bytes.
C27_TableSizesDeclared ==
    pc = "ar_append" => (SymbolTableSizeDeclared /\ NameTableSizeDeclared)

\* The token is the one the lexer yielded last: some call of Lexer::next
\* returned it and left the lexer where it stands now.
LexedLast(tok) ==
    \E from \in 1..(Len(parser.text) + 1) :
        /\ LexerNext(parser.text, from).pos = parser.pos
        /\ LexerNext(parser.text, from).kind = tok.kind
        /\ LexerNext(parser.text, from).value = tok.value

\* C28: the pushback stack of the parser never holds more than one token, and
\* a token it holds is the one the lexer yielded last, so that the tokens
\* are read in the order of the lexer.
C28_StackAtMostOne ==
    /\ parser.depth <= 1
    /\ Len(parser.stack) <= 1
    /\ \A i \in 1..Len(parser.stack) : LexedLast(parser.stack[i])

\* C28, its case: `foo` and `@bar` were parsed as two exports, each token
\* that ended an export having been pushed back and read again, and the
\* token that ended the block is on the stack.
C28_Witness ==
    /\ parser.status = "running"
    /\ Len(parser.def.exports) = 2
    /\ parser.def.exports[2].name = Bytes("@bar")
    /\ parser.depth = 1
    /\ Len(parser.stack) = 1
    /\ parser.stack[1].kind = "Eof"

----------------------------------------------------------------------------
(* Termination of the parser, under SpecParseLive                          *)

\* Lexer::next called at `pos` returns Eof or leaves the lexer further on,
\* never past the end of the text.
LexerAdvancesAt(text, pos) ==
    /\ LexerNext(text, pos).kind = "Eof" \/ LexerNext(text, pos).pos > pos
    /\ LexerNext(text, pos).pos <= Len(text) + 1

\* How many tokens other than Eof the parser `p` has still to read: those the
\* lexer is to yield before its first Eof, and those on the stack.
Remaining(p) ==
    Len(Lexed(p.text, p.pos))
        + Cardinality({i \in 1..Len(p.stack) : p.stack[i].kind # "Eof"})

\* C29: Parser::parse comes to an end on every text.  Each call of Lexer::next
\* consumes a character or returns Eof, and returns Eof at the end of the
\* text (wherever in the text it is called, the text being the one the parser
\* was made with); each parse_one that returns Ok(false) has called the lexer and has
\* left fewer tokens to read.
C29_ParseTerminates ==
    /\ <>ParseEnded
    /\ [](parser.lexed = 0 =>
            /\ \A pos \in 1..(Len(parser.text) + 1) : LexerAdvancesAt(parser.text, pos)
            /\ LexerNext(parser.text, Len(parser.text) + 1).kind = "Eof")
    /\ [][(pc = "parsing" /\ parser'.status = "running") =>
             /\ parser'.lexed > parser.lexed
             /\ Remaining(parser') < Remaining(parser)]_vars

\* C29, its case: the parse of `EXPORTS foo`, in which the token after `foo`
\* was pushed back by parse_export, again by the loop of EXPORTS, and read by
\* the last parse_one, has ended with the export.
C29_Witness ==
    /\ parser.text = Bytes("EXPORTS foo")
    /\ parser.status = "eof"
    /\ parser.lexed = 3
    /\ parser.depth = 1
    /\ Len(parser.def.exports) = 1

----------------------------------------------------------------------------
(* The hint/name entry of the GNU stubs, under SpecParse                   *)

\* The sections of a stub are .text, .data, .bss, .idata$7, .idata$5,
\* .idata$4 and .idata$6, in this order.
HintNameSection(member) == member.obj.sections[7]

\* The entry `.idata$6` is to hold for `export`: the ordinal in two bytes,
\* low byte first, the name without one leading `_` on I386, and a NUL.
HintNameEntry(export) ==
    U16LE(export.ordinal)
        \o (IF machine = "I386" /\ StartsWith(export.name, 95)
            THEN Tail(export.name) ELSE export.name)
        \o NUL

\* C30: when the GNU flavor has run on a definition whose names hold no NUL
\* (those are refused), then for every export imported by name, on every
\* machine, the run has succeeded and `.idata$6` of the export's stub holds the
\* 2-byte little-endian ordinal, the export name and a NUL; on I386 one leading
\* `_` of the name is left out if there is one, and the name is unchanged
\* otherwise, decorated names such as `@bar` or `?baz` included.
C30_HintNameEntries ==
    (Written /\ flavor = "gnu" /\ ~NulInNames(def)) =>
        \A i \in 1..Len(def.exports) :
            ~def.exports[i].no_name =>
                /\ out.status = "ok"
                /\ Cardinality(MembersNamed(StubName(i))) = 1
                /\ \A k \in MembersNamed(StubName(i)) :
                      /\ HintNameSection(out.members[k]).name = ".idata$6"
                      /\ HintNameSection(out.members[k]).data
                            = HintNameEntry(def.exports[i])

====
